---- MODULE Spec2Model ----
(***************************************************************************)
(* Cache-policy family of kvcache_sim (src/kvcache_sim/cache/*.py).         *)
(* One cache object is built (variable policy says which) and then driven   *)
(* by a sequence of get/put calls; every call is one atomic step that       *)
(* models the whole method, eviction loops included.                        *)
(***************************************************************************)
EXTENDS Integers, Sequences, FiniteSets, TLC

\* ---------------------------------------------------------------- bounds
MaxKey == 3
MaxSize == 3
MaxOps == 4
MaxARCOps == 6
MaxPairOps == 5
MaxClockProOps == 5
MaxMdOps == 3
MaxTs == 2
\* configuration values handed to the constructors
capacity_bytes == 2
ttl_ms_cfg == 2
partitions == 2
l1_capacity_bytes == 1
l2_capacity_bytes == 2

KeyChoices == 1..MaxKey
SizeChoices == 0..MaxSize

\* ------------------------------------------------ ordered-dict primitives
\* An OrderedDict / dict is a sequence of entries [k, s] in insertion order.
None == -1

Max2(a, b) == IF a >= b THEN a ELSE b
Min2(a, b) == IF a <= b THEN a ELSE b

RECURSIVE SumSizes(_)
SumSizes(od) == IF od = <<>> THEN 0 ELSE Head(od).s + SumSizes(Tail(od))

KeySet(od) == {od[i].k : i \in 1..Len(od)}
HasKey(od, key) == \E i \in 1..Len(od) : od[i].k = key
Entry(od, key) == od[CHOOSE i \in 1..Len(od) : od[i].k = key]
SizeOf(od, key) == Entry(od, key).s
Pop(od, key) == SelectSeq(od, LAMBDA e : e.k /= key)
\* d[key] = size: an existing key keeps its position, a new key goes last
SetItem(od, key, size) ==
    IF HasKey(od, key)
    THEN [i \in 1..Len(od) |-> IF od[i].k = key THEN [k |-> key, s |-> size] ELSE od[i]]
    ELSE Append(od, [k |-> key, s |-> size])
MoveToEnd(od, key) == Append(Pop(od, key), Entry(od, key))
RemoveKey(q, key) == SelectSeq(q, LAMBDA x : x /= key)

\* hits / total if total else 0.0, kept as the fraction num / den
HitRate(hits, total) ==
    IF total /= 0 THEN [num |-> hits, den |-> total] ELSE [num |-> 0, den |-> 1]

\* CacheMetadata(timestamp_ms, priority, pinned, tenant_id); None = absent
NoMd == [timestamp_ms |-> None, priority |-> 0, pinned |-> FALSE, tenant_id |-> None]

VARIABLES
    policy,     \* which cache class the factory built
    arc, lfu, mru, ttl, twoq, lruk, clock, clockpro, prio, part, hier, lru, fifo,
    last,       \* the most recent call and its result
    gets, puts, \* number of get / put calls made so far
    nkeys,      \* number of distinct keys the workload has named so far
    positive,   \* every size_bytes passed so far was strictly positive
    pc,         \* "idle": no call in progress; "looping": a call that never returns
    build,      \* the configuration handed to the factory and what the factory did
    ledger,     \* what the replay engine did for, and recorded of, its latest request
    split       \* one application of the block-split rule: its inputs and its result

vars == <<policy, arc, lfu, mru, ttl, twoq, lruk, clock, clockpro, prio, part, hier,
          lru, fifo, last, gets, puts, nkeys, positive, pc, build, ledger, split>>

\* bookkeeping of one call by the driver
Call(op, key, size, md, hit, level, returned) ==
    /\ last' = [op |-> op, key |-> key, size |-> size, tenant_id |-> md.tenant_id,
                timestamp_ms |-> md.timestamp_ms, hit |-> hit, level |-> level]
    /\ nkeys' = Max2(nkeys, key)
    /\ positive' = (positive /\ size > 0)
    /\ gets' = IF op = "get" THEN gets + 1 ELSE gets
    /\ puts' = IF op = "put" THEN puts + 1 ELSE puts
    /\ pc' = IF returned THEN "idle" ELSE "looping"
    /\ UNCHANGED <<build, ledger, split>>

\* the policies that read the metadata take a longer list of inputs per call
\* and are driven for MaxMdOps calls, the others for MaxOps calls
MetadataPolicies == {"ttl", "priority_lru", "tenant_lru"}
OpsBound(p) == IF p \in MetadataPolicies THEN MaxMdOps ELSE MaxOps

\* Keys are opaque identifiers (block hashes) that the caches only compare for
\* equality, so the workload numbers them in order of first appearance.
CanCall(p, key) ==
    /\ pc = "idle"
    /\ policy = p
    /\ gets + puts < OpsBound(p)
    /\ key <= nkeys + 1

\* ------------------------------------------------------------------- ARC
\* p_init_fraction = 0.5: int(capacity_bytes * 0.5)
ARCCache_init(cap) ==
    [capacity_bytes |-> cap, t1 |-> <<>>, t2 |-> <<>>, b1 |-> <<>>, b2 |-> <<>>,
     t1_bytes |-> 0, t2_bytes |-> 0, p |-> cap \div 2,
     hits |-> 0, misses |-> 0]

RECURSIVE ARCCache_trim_loop(_, _, _)
ARCCache_trim_loop(c, ghost, total_ghost) ==
    IF total_ghost > c.capacity_bytes /\ ghost /= <<>>
    THEN ARCCache_trim_loop(c, Tail(ghost), total_ghost - Head(ghost).s)
    ELSE ghost
ARCCache_trim_ghost(c, ghost) == ARCCache_trim_loop(c, ghost, SumSizes(ghost))

\* _adapt_p as it would be without the cap at capacity_bytes and the floor at 0
ARCCache_adapt_p_unclamped(c, increase, ghost_size) ==
    LET delta == Max2(1, ghost_size) IN
    IF increase THEN [c EXCEPT !.p = c.p + delta]
    ELSE [c EXCEPT !.p = c.p - delta]

ARCCache_adapt_p(c, increase, ghost_size) ==
    LET delta == Max2(1, ghost_size) IN
    IF increase THEN [c EXCEPT !.p = Min2(c.capacity_bytes, c.p + delta)]
    ELSE [c EXCEPT !.p = Max2(0, c.p - delta)]

RECURSIVE ARCCache_replace(_, _)
ARCCache_replace(c, key) ==
    IF c.t1_bytes + c.t2_bytes >= c.capacity_bytes /\ (c.t1 /= <<>> \/ c.t2 /= <<>>)
    THEN IF c.t1 /= <<>> /\ (c.t1_bytes > c.p \/ (HasKey(c.b2, key) /\ c.t1_bytes = c.p))
         THEN LET e == Head(c.t1) IN
              ARCCache_replace([c EXCEPT !.t1 = Tail(@), !.t1_bytes = @ - e.s,
                                         !.b1 = ARCCache_trim_ghost(c, SetItem(@, e.k, e.s))], key)
         ELSE IF c.t2 /= <<>>
         THEN LET e == Head(c.t2) IN
              ARCCache_replace([c EXCEPT !.t2 = Tail(@), !.t2_bytes = @ - e.s,
                                         !.b2 = ARCCache_trim_ghost(c, SetItem(@, e.k, e.s))], key)
         ELSE c
    ELSE c

ARCCache_insert_t1(c, key, size_bytes) ==
    IF size_bytes > c.capacity_bytes THEN c
    ELSE [c EXCEPT !.t1 = SetItem(@, key, size_bytes), !.t1_bytes = @ + size_bytes]

ARCCache_insert_t2(c, key, size_bytes) ==
    IF size_bytes > c.capacity_bytes THEN c
    ELSE [c EXCEPT !.t2 = SetItem(@, key, size_bytes), !.t2_bytes = @ + size_bytes]

\* get as it would be if a hit in T1 removed the key from T1 without installing
\* it in T2
ARCCache_get_drops_t1_hit(c, key, size_bytes) ==
    IF HasKey(c.t1, key)
    THEN LET size == SizeOf(c.t1, key) IN
         [c |-> [c EXCEPT !.t1 = Pop(@, key), !.t1_bytes = @ - size, !.hits = @ + 1],
          hit |-> TRUE]
    ELSE IF HasKey(c.t2, key)
    THEN [c |-> [c EXCEPT !.t2 = MoveToEnd(@, key), !.hits = @ + 1], hit |-> TRUE]
    ELSE LET m == [c EXCEPT !.misses = @ + 1] IN
         IF HasKey(m.b1, key)
         THEN LET a == ARCCache_adapt_p([m EXCEPT !.b1 = Pop(@, key)], TRUE, SizeOf(m.b1, key)) IN
              [c |-> ARCCache_insert_t2(ARCCache_replace(a, key), key, size_bytes), hit |-> FALSE]
         ELSE IF HasKey(m.b2, key)
         THEN LET a == ARCCache_adapt_p([m EXCEPT !.b2 = Pop(@, key)], FALSE, SizeOf(m.b2, key)) IN
              [c |-> ARCCache_insert_t2(ARCCache_replace(a, key), key, size_bytes), hit |-> FALSE]
         ELSE [c |-> ARCCache_insert_t1(ARCCache_replace(m, key), key, size_bytes), hit |-> FALSE]

ARCCache_get(c, key, size_bytes) ==
    IF HasKey(c.t1, key)
    THEN LET size == SizeOf(c.t1, key) IN
         [c |-> [c EXCEPT !.t1 = Pop(@, key), !.t1_bytes = @ - size,
                          !.t2 = SetItem(@, key, size), !.t2_bytes = @ + size,
                          !.hits = @ + 1],
          hit |-> TRUE]
    ELSE IF HasKey(c.t2, key)
    THEN [c |-> [c EXCEPT !.t2 = MoveToEnd(@, key), !.hits = @ + 1], hit |-> TRUE]
    ELSE LET m == [c EXCEPT !.misses = @ + 1] IN
         IF HasKey(m.b1, key)
         THEN LET a == ARCCache_adapt_p([m EXCEPT !.b1 = Pop(@, key)], TRUE, SizeOf(m.b1, key)) IN
              [c |-> ARCCache_insert_t2(ARCCache_replace(a, key), key, size_bytes), hit |-> FALSE]
         ELSE IF HasKey(m.b2, key)
         THEN LET a == ARCCache_adapt_p([m EXCEPT !.b2 = Pop(@, key)], FALSE, SizeOf(m.b2, key)) IN
              [c |-> ARCCache_insert_t2(ARCCache_replace(a, key), key, size_bytes), hit |-> FALSE]
         ELSE [c |-> ARCCache_insert_t1(ARCCache_replace(m, key), key, size_bytes), hit |-> FALSE]

\* put as it would be if a key found in a ghost list stayed recorded there
ARCCache_put_keeps_ghost(c, key, size_bytes) ==
    IF HasKey(c.t1, key)
    THEN ARCCache_insert_t2([c EXCEPT !.t1 = Pop(@, key), !.t1_bytes = @ - SizeOf(c.t1, key)],
                            key, size_bytes)
    ELSE IF HasKey(c.t2, key)
    THEN ARCCache_insert_t2([c EXCEPT !.t2 = Pop(@, key), !.t2_bytes = @ - SizeOf(c.t2, key)],
                            key, size_bytes)
    ELSE IF HasKey(c.b1, key) \/ HasKey(c.b2, key)
    THEN ARCCache_insert_t2(ARCCache_replace(c, key), key, size_bytes)
    ELSE ARCCache_insert_t1(ARCCache_replace(c, key), key, size_bytes)

ARCCache_put(c, key, size_bytes) ==
    IF HasKey(c.t1, key)
    THEN ARCCache_insert_t2([c EXCEPT !.t1 = Pop(@, key), !.t1_bytes = @ - SizeOf(c.t1, key)],
                            key, size_bytes)
    ELSE IF HasKey(c.t2, key)
    THEN ARCCache_insert_t2([c EXCEPT !.t2 = Pop(@, key), !.t2_bytes = @ - SizeOf(c.t2, key)],
                            key, size_bytes)
    ELSE IF HasKey(c.b1, key)
    THEN ARCCache_insert_t2(ARCCache_replace([c EXCEPT !.b1 = Pop(@, key)], key), key, size_bytes)
    ELSE IF HasKey(c.b2, key)
    THEN ARCCache_insert_t2(ARCCache_replace([c EXCEPT !.b2 = Pop(@, key)], key), key, size_bytes)
    ELSE ARCCache_insert_t1(ARCCache_replace(c, key), key, size_bytes)

ARCCache_stats(c) ==
    [hits |-> c.hits, misses |-> c.misses, hit_rate |-> HitRate(c.hits, c.hits + c.misses),
     used_bytes |-> c.t1_bytes + c.t2_bytes, capacity_bytes |-> c.capacity_bytes,
     p_bytes |-> c.p, items |-> Len(c.t1) + Len(c.t2)]

ARCGet(key, size_bytes) ==
    /\ CanCall("arc", key)
    /\ LET r == ARCCache_get(arc, key, size_bytes) IN
       /\ arc' = r.c
       /\ Call("get", key, size_bytes, NoMd, r.hit, IF r.hit THEN "l1" ELSE "miss", TRUE)
    /\ UNCHANGED <<policy, lfu, mru, ttl, twoq, lruk, clock, clockpro, prio, part, hier, lru, fifo>>

ARCPut(key, size_bytes) ==
    /\ CanCall("arc", key)
    /\ arc' = ARCCache_put(arc, key, size_bytes)
    /\ Call("put", key, size_bytes, NoMd, FALSE, "none", TRUE)
    /\ UNCHANGED <<policy, lfu, mru, ttl, twoq, lruk, clock, clockpro, prio, part, hier, lru, fifo>>

\* ------------------------------------------------------------------- LFU
\* freq: key -> frequency (0 = key absent); freq_buckets: frequency -> keys
\* in insertion order (a missing bucket of the defaultdict is the empty one).
FreqChoices == 0..(MaxOps + 1)

LFUCache_init(cap) ==
    [capacity_bytes |-> cap, items |-> <<>>, freq |-> [k \in KeyChoices |-> 0],
     freq_buckets |-> [f \in FreqChoices |-> <<>>],
     used_bytes |-> 0, min_freq |-> 0, hits |-> 0, misses |-> 0]

LFUCache_bump_freq(c, key) ==
    LET freq == c.freq[key]
        bucket == RemoveKey(c.freq_buckets[freq], key)
        new_freq == freq + 1
    IN [c EXCEPT !.freq_buckets = [@ EXCEPT ![freq] = bucket,
                                            ![new_freq] = Append(@, key)],
                 !.min_freq = IF bucket = <<>> /\ c.min_freq = freq THEN @ + 1 ELSE @,
                 !.freq[key] = new_freq]

\* _evict: nothing happens when the min_freq bucket is empty
LFUCache_evict(c) ==
    LET bucket == c.freq_buckets[c.min_freq] IN
    IF bucket = <<>> THEN c
    ELSE LET key == Head(bucket) IN
         [c EXCEPT !.freq_buckets[c.min_freq] = Tail(bucket),
                   !.items = Pop(@, key),
                   !.freq[key] = 0,
                   !.used_bytes = @ - (IF HasKey(c.items, key) THEN SizeOf(c.items, key) ELSE 0)]

\* the while loop of _insert; ok = FALSE when an iteration changes nothing,
\* i.e. the loop condition stays true for ever
RECURSIVE LFUCache_evict_loop(_, _)
LFUCache_evict_loop(c, size_bytes) ==
    IF c.used_bytes + size_bytes > c.capacity_bytes /\ c.items /= <<>>
    THEN LET d == LFUCache_evict(c) IN
         IF d = c THEN [c |-> c, ok |-> FALSE] ELSE LFUCache_evict_loop(d, size_bytes)
    ELSE [c |-> c, ok |-> TRUE]

LFUCache_insert(c, key, size_bytes) ==
    IF size_bytes > c.capacity_bytes THEN [c |-> c, ok |-> TRUE]
    ELSE LET r == LFUCache_evict_loop(c, size_bytes) IN
         IF ~r.ok THEN r
         ELSE [c |-> [r.c EXCEPT !.items = SetItem(@, key, size_bytes),
                                 !.used_bytes = @ + size_bytes,
                                 !.freq[key] = 1,
                                 !.freq_buckets[1] = IF \E i \in 1..Len(@) : @[i] = key
                                                     THEN @ ELSE Append(@, key),
                                 !.min_freq = 1],
               ok |-> TRUE]

LFUCache_get(c, key, size_bytes) ==
    IF HasKey(c.items, key)
    THEN [c |-> LFUCache_bump_freq([c EXCEPT !.hits = @ + 1], key), hit |-> TRUE, ok |-> TRUE]
    ELSE LET r == LFUCache_insert([c EXCEPT !.misses = @ + 1], key, size_bytes) IN
         [c |-> r.c, hit |-> FALSE, ok |-> r.ok]

\* put as it would be if replacing a resident key added the new size without
\* subtracting the old one
LFUCache_put_double_counts(c, key, size_bytes) ==
    IF HasKey(c.items, key)
    THEN [c |-> LFUCache_bump_freq([c EXCEPT !.used_bytes = @ + size_bytes,
                                             !.items = SetItem(@, key, size_bytes)], key),
          ok |-> TRUE]
    ELSE LFUCache_insert(c, key, size_bytes)

LFUCache_put(c, key, size_bytes) ==
    IF HasKey(c.items, key)
    THEN LET existing == SizeOf(c.items, key) IN
         [c |-> LFUCache_bump_freq([c EXCEPT !.used_bytes = (@ - existing) + size_bytes,
                                             !.items = SetItem(@, key, size_bytes)], key),
          ok |-> TRUE]
    ELSE LFUCache_insert(c, key, size_bytes)

LFUCache_stats(c) ==
    [hits |-> c.hits, misses |-> c.misses, hit_rate |-> HitRate(c.hits, c.hits + c.misses),
     used_bytes |-> c.used_bytes, capacity_bytes |-> c.capacity_bytes,
     items |-> Len(c.items)]

LFUGet(key, size_bytes) ==
    /\ CanCall("lfu", key)
    /\ LET r == LFUCache_get(lfu, key, size_bytes) IN
       /\ lfu' = r.c
       /\ Call("get", key, size_bytes, NoMd, r.hit, IF r.hit THEN "l1" ELSE "miss", r.ok)
    /\ UNCHANGED <<policy, arc, mru, ttl, twoq, lruk, clock, clockpro, prio, part, hier, lru, fifo>>

LFUPut(key, size_bytes) ==
    /\ CanCall("lfu", key)
    /\ LET r == LFUCache_put(lfu, key, size_bytes) IN
       /\ lfu' = r.c
       /\ Call("put", key, size_bytes, NoMd, FALSE, "none", r.ok)
    /\ UNCHANGED <<policy, arc, mru, ttl, twoq, lruk, clock, clockpro, prio, part, hier, lru, fifo>>

\* ------------------------------------------------------------------- MRU
MRUCache_init(cap) == [capacity_bytes |-> cap, items |-> <<>>, used_bytes |-> 0, hits |-> 0, misses |-> 0]

\* popitem(last=True): the victim is the most recently used end
RECURSIVE MRUCache_evict_loop(_, _)
MRUCache_evict_loop(c, size_bytes) ==
    IF c.used_bytes + size_bytes > c.capacity_bytes /\ c.items /= <<>>
    THEN LET n == Len(c.items) IN
         MRUCache_evict_loop([c EXCEPT !.items = SubSeq(@, 1, n - 1),
                                       !.used_bytes = @ - c.items[n].s], size_bytes)
    ELSE c

MRUCache_insert(c, key, size_bytes) ==
    IF size_bytes > c.capacity_bytes THEN c
    ELSE LET d == MRUCache_evict_loop(c, size_bytes) IN
         [d EXCEPT !.items = SetItem(@, key, size_bytes), !.used_bytes = @ + size_bytes]

\* get as it would be if a hit took the size of the call for the entry
MRUCache_get_resizes(c, key, size_bytes) ==
    IF HasKey(c.items, key)
    THEN [c |-> [c EXCEPT !.items = MoveToEnd(SetItem(@, key, size_bytes), key),
                          !.used_bytes = @ - SizeOf(c.items, key) + size_bytes,
                          !.hits = @ + 1],
          hit |-> TRUE]
    ELSE [c |-> MRUCache_insert([c EXCEPT !.misses = @ + 1], key, size_bytes), hit |-> FALSE]

MRUCache_get(c, key, size_bytes) ==
    IF HasKey(c.items, key)
    THEN [c |-> [c EXCEPT !.items = MoveToEnd(@, key), !.hits = @ + 1], hit |-> TRUE]
    ELSE [c |-> MRUCache_insert([c EXCEPT !.misses = @ + 1], key, size_bytes), hit |-> FALSE]

MRUCache_put(c, key, size_bytes) ==
    IF HasKey(c.items, key)
    THEN MRUCache_insert([c EXCEPT !.used_bytes = @ - SizeOf(c.items, key),
                                   !.items = Pop(@, key)], key, size_bytes)
    ELSE MRUCache_insert(c, key, size_bytes)

MRUCache_stats(c) ==
    [hits |-> c.hits, misses |-> c.misses, hit_rate |-> HitRate(c.hits, c.hits + c.misses),
     used_bytes |-> c.used_bytes, capacity_bytes |-> c.capacity_bytes,
     items |-> Len(c.items)]

MRUGet(key, size_bytes) ==
    /\ CanCall("mru", key)
    /\ LET r == MRUCache_get(mru, key, size_bytes) IN
       /\ mru' = r.c
       /\ Call("get", key, size_bytes, NoMd, r.hit, IF r.hit THEN "l1" ELSE "miss", TRUE)
    /\ UNCHANGED <<policy, arc, lfu, ttl, twoq, lruk, clock, clockpro, prio, part, hier, lru, fifo>>

MRUPut(key, size_bytes) ==
    /\ CanCall("mru", key)
    /\ mru' = MRUCache_put(mru, key, size_bytes)
    /\ Call("put", key, size_bytes, NoMd, FALSE, "none", TRUE)
    /\ UNCHANGED <<policy, arc, lfu, ttl, twoq, lruk, clock, clockpro, prio, part, hier, lru, fifo>>

\* ------------------------------------------------------------------- TTL
\* expiry: key -> expiry time (None = no expiry recorded)
TsChoices == {None} \cup (1..MaxTs)
TtlChoices == {0, ttl_ms_cfg}

TTLCache_init(cap, ttl_ms) ==
    [capacity_bytes |-> cap, ttl_ms |-> Max2(0, ttl_ms), items |-> <<>>, expiry |-> [k \in KeyChoices |-> None],
     used_bytes |-> 0, hits |-> 0, misses |-> 0, now |-> 0]

TTLCache_advance(c, md) ==
    IF md.timestamp_ms /= None /\ md.timestamp_ms > 0
    THEN [c EXCEPT !.now = md.timestamp_ms]
    ELSE [c EXCEPT !.now = @ + 1]

\* _is_expired as it would be if an entry were still live at its expiry time
TTLCache_is_expired_late(c, key, now) == c.expiry[key] /= None /\ now > c.expiry[key]
TTLCache_is_expired(c, key, now) == c.expiry[key] /= None /\ now >= c.expiry[key]

TTLCache_remove(c, key) ==
    [c EXCEPT !.items = Pop(@, key),
              !.used_bytes = IF HasKey(c.items, key) THEN @ - SizeOf(c.items, key) ELSE @,
              !.expiry[key] = None]

TTLCache_purge_expired(c, now) ==
    LET expired == {k \in KeyChoices : c.expiry[k] /= None /\ now >= c.expiry[k]}
        kept == SelectSeq(c.items, LAMBDA e : e.k \notin expired)
    IN [c EXCEPT !.items = kept,
                 !.used_bytes = @ - (SumSizes(c.items) - SumSizes(kept)),
                 !.expiry = [k \in KeyChoices |-> IF k \in expired THEN None ELSE @[k]]]

RECURSIVE TTLCache_evict_loop(_, _)
TTLCache_evict_loop(c, size_bytes) ==
    IF c.used_bytes + size_bytes > c.capacity_bytes /\ c.items /= <<>>
    THEN TTLCache_evict_loop(TTLCache_remove(c, Head(c.items).k), size_bytes)
    ELSE c

TTLCache_insert(c, key, size_bytes, now) ==
    IF size_bytes > c.capacity_bytes THEN c
    ELSE LET purged == IF c.ttl_ms > 0 THEN TTLCache_purge_expired(c, now) ELSE c
             expiry == IF c.ttl_ms > 0 THEN now + c.ttl_ms ELSE None
             d == TTLCache_evict_loop(purged, size_bytes)
         IN [d EXCEPT !.items = SetItem(@, key, size_bytes),
                      !.expiry[key] = IF expiry /= None THEN expiry ELSE @,
                      !.used_bytes = @ + size_bytes]

TTLCache_get(c0, key, size_bytes, md) ==
    LET c == TTLCache_advance(c0, md)
        now == c.now
    IN IF HasKey(c.items, key) /\ ~TTLCache_is_expired(c, key, now)
       THEN [c |-> [c EXCEPT !.items = MoveToEnd(@, key), !.hits = @ + 1], hit |-> TRUE]
       ELSE LET r == IF HasKey(c.items, key) THEN TTLCache_remove(c, key) ELSE c IN
            [c |-> TTLCache_insert([r EXCEPT !.misses = @ + 1], key, size_bytes, now),
             hit |-> FALSE]

TTLCache_put(c0, key, size_bytes, md) ==
    LET c == TTLCache_advance(c0, md)
        r == IF HasKey(c.items, key) THEN TTLCache_remove(c, key) ELSE c
    IN TTLCache_insert(r, key, size_bytes, c.now)

TTLCache_stats(c) ==
    [hits |-> c.hits, misses |-> c.misses, hit_rate |-> HitRate(c.hits, c.hits + c.misses),
     used_bytes |-> c.used_bytes, capacity_bytes |-> c.capacity_bytes,
     items |-> Len(c.items), ttl_ms |-> c.ttl_ms]

TTLGet(key, size_bytes, ts) ==
    /\ CanCall("ttl", key)
    /\ LET md == [NoMd EXCEPT !.timestamp_ms = ts]
           r == TTLCache_get(ttl, key, size_bytes, md) IN
       /\ ttl' = r.c
       /\ Call("get", key, size_bytes, md, r.hit, IF r.hit THEN "l1" ELSE "miss", TRUE)
    /\ UNCHANGED <<policy, arc, lfu, mru, twoq, lruk, clock, clockpro, prio, part, hier, lru, fifo>>

TTLPut(key, size_bytes, ts) ==
    /\ CanCall("ttl", key)
    /\ LET md == [NoMd EXCEPT !.timestamp_ms = ts] IN
       /\ ttl' = TTLCache_put(ttl, key, size_bytes, md)
       /\ Call("put", key, size_bytes, md, FALSE, "none", TRUE)
    /\ UNCHANGED <<policy, arc, lfu, mru, twoq, lruk, clock, clockpro, prio, part, hier, lru, fifo>>

\* -------------------------------------------------------------------- 2Q
\* a1in_fraction = 0.25, a1out_fraction = 0.5: int(capacity_bytes * fraction)
TwoQCache_init(cap) ==
    [capacity_bytes |-> cap, a1in_capacity |-> cap \div 4, a1out_capacity |-> cap \div 2,
     a1in |-> <<>>, a1out |-> <<>>, am |-> <<>>, a1in_bytes |-> 0, am_bytes |-> 0,
     hits |-> 0, misses |-> 0]

RECURSIVE TwoQCache_trim_loop(_, _, _)
TwoQCache_trim_loop(c, ghost, total_ghost) ==
    IF total_ghost > c.a1out_capacity /\ ghost /= <<>>
    THEN TwoQCache_trim_loop(c, Tail(ghost), total_ghost - Head(ghost).s)
    ELSE ghost
\* variant of _trim_a1out that leaves the ghost list as it is
TwoQCache_trim_a1out_untrimmed(c, a1out) == a1out

TwoQCache_trim_a1out(c, a1out) == TwoQCache_trim_loop(c, a1out, SumSizes(a1out))

RECURSIVE TwoQCache_evict_if_needed(_)
TwoQCache_evict_if_needed(c) ==
    IF c.a1in_bytes + c.am_bytes > c.capacity_bytes
    THEN IF c.a1in /= <<>> /\ c.a1in_bytes > c.a1in_capacity
         THEN LET e == Head(c.a1in) IN
              TwoQCache_evict_if_needed(
                  [c EXCEPT !.a1in = Tail(@), !.a1in_bytes = @ - e.s,
                            !.a1out = TwoQCache_trim_a1out(c, SetItem(@, e.k, e.s))])
         ELSE IF c.am /= <<>>
         THEN LET e == Head(c.am) IN
              TwoQCache_evict_if_needed(
                  [c EXCEPT !.am = Tail(@), !.am_bytes = @ - e.s,
                            !.a1out = TwoQCache_trim_a1out(c, SetItem(@, e.k, e.s))])
         ELSE IF c.a1in /= <<>>
         THEN LET e == Head(c.a1in) IN
              TwoQCache_evict_if_needed(
                  [c EXCEPT !.a1in = Tail(@), !.a1in_bytes = @ - e.s,
                            !.a1out = TwoQCache_trim_a1out(c, SetItem(@, e.k, e.s))])
         ELSE c
    ELSE c

TwoQCache_insert_a1in(c, key, size_bytes) ==
    IF size_bytes > c.capacity_bytes THEN c
    ELSE TwoQCache_evict_if_needed(
             [c EXCEPT !.a1in = SetItem(@, key, size_bytes), !.a1in_bytes = @ + size_bytes])

TwoQCache_insert_am(c, key, size_bytes) ==
    IF size_bytes > c.capacity_bytes THEN c
    ELSE TwoQCache_evict_if_needed(
             [c EXCEPT !.am = SetItem(@, key, size_bytes), !.am_bytes = @ + size_bytes])

\* get as it would be if the miss on a key remembered in A1out were not counted
TwoQCache_get_ghost_uncounted(c, key, size_bytes) ==
    IF HasKey(c.am, key)
    THEN [c |-> [c EXCEPT !.am = MoveToEnd(@, key), !.hits = @ + 1], hit |-> TRUE]
    ELSE IF HasKey(c.a1in, key)
    THEN LET size == SizeOf(c.a1in, key) IN
         [c |-> TwoQCache_evict_if_needed(
                    [c EXCEPT !.a1in = Pop(@, key), !.a1in_bytes = @ - size,
                              !.am = SetItem(@, key, size), !.am_bytes = @ + size,
                              !.hits = @ + 1]),
          hit |-> TRUE]
    ELSE IF HasKey(c.a1out, key)
    THEN [c |-> TwoQCache_insert_am([c EXCEPT !.a1out = Pop(@, key)], key, size_bytes),
          hit |-> FALSE]
    ELSE [c |-> TwoQCache_insert_a1in([c EXCEPT !.misses = @ + 1], key, size_bytes),
          hit |-> FALSE]

TwoQCache_get(c, key, size_bytes) ==
    IF HasKey(c.am, key)
    THEN [c |-> [c EXCEPT !.am = MoveToEnd(@, key), !.hits = @ + 1], hit |-> TRUE]
    ELSE IF HasKey(c.a1in, key)
    THEN LET size == SizeOf(c.a1in, key) IN
         [c |-> TwoQCache_evict_if_needed(
                    [c EXCEPT !.a1in = Pop(@, key), !.a1in_bytes = @ - size,
                              !.am = SetItem(@, key, size), !.am_bytes = @ + size,
                              !.hits = @ + 1]),
          hit |-> TRUE]
    ELSE IF HasKey(c.a1out, key)
    THEN [c |-> TwoQCache_insert_am([c EXCEPT !.misses = @ + 1, !.a1out = Pop(@, key)],
                                    key, size_bytes),
          hit |-> FALSE]
    ELSE [c |-> TwoQCache_insert_a1in([c EXCEPT !.misses = @ + 1], key, size_bytes),
          hit |-> FALSE]

TwoQCache_put(c, key, size_bytes) ==
    IF HasKey(c.am, key)
    THEN TwoQCache_insert_am([c EXCEPT !.am = Pop(@, key), !.am_bytes = @ - SizeOf(c.am, key)],
                             key, size_bytes)
    ELSE IF HasKey(c.a1in, key)
    THEN TwoQCache_insert_a1in([c EXCEPT !.a1in = Pop(@, key),
                                         !.a1in_bytes = @ - SizeOf(c.a1in, key)],
                               key, size_bytes)
    ELSE IF HasKey(c.a1out, key)
    THEN TwoQCache_insert_am([c EXCEPT !.a1out = Pop(@, key)], key, size_bytes)
    ELSE TwoQCache_insert_a1in(c, key, size_bytes)

TwoQCache_stats(c) ==
    [hits |-> c.hits, misses |-> c.misses, hit_rate |-> HitRate(c.hits, c.hits + c.misses),
     used_bytes |-> c.a1in_bytes + c.am_bytes, capacity_bytes |-> c.capacity_bytes,
     a1in_bytes |-> c.a1in_bytes, am_bytes |-> c.am_bytes,
     items |-> Len(c.a1in) + Len(c.am)]

TwoQGet(key, size_bytes) ==
    /\ CanCall("twoq", key)
    /\ LET r == TwoQCache_get(twoq, key, size_bytes) IN
       /\ twoq' = r.c
       /\ Call("get", key, size_bytes, NoMd, r.hit, IF r.hit THEN "l1" ELSE "miss", TRUE)
    /\ UNCHANGED <<policy, arc, lfu, mru, ttl, lruk, clock, clockpro, prio, part, hier, lru, fifo>>

TwoQPut(key, size_bytes) ==
    /\ CanCall("twoq", key)
    /\ twoq' = TwoQCache_put(twoq, key, size_bytes)
    /\ Call("put", key, size_bytes, NoMd, FALSE, "none", TRUE)
    /\ UNCHANGED <<policy, arc, lfu, mru, ttl, lruk, clock, clockpro, prio, part, hier, lru, fifo>>

\* ----------------------------------------------------------------- LRU-K
\* history: key -> deque(maxlen=k) of access timestamps, oldest first
KChoices == {1, 2}

LRUKCache_init(cap, k) ==
    [capacity_bytes |-> cap, k |-> Max2(1, k), items |-> <<>>, history |-> [x \in KeyChoices |-> <<>>],
     used_bytes |-> 0, hits |-> 0, misses |-> 0, clock |-> 0]

\* _record_access as it would be if a full history kept its entries and
\* dropped the new timestamp
LRUKCache_record_access_keeps_oldest(c, key, ts) ==
    IF Len(c.history[key]) >= c.k THEN c
    ELSE [c EXCEPT !.history[key] = Append(@, ts)]

LRUKCache_record_access(c, key, ts) ==
    LET h == Append(c.history[key], ts) IN
    [c EXCEPT !.history[key] = IF Len(h) > c.k THEN Tail(h) ELSE h]

LRUKCache_score(c, key) ==
    LET h == c.history[key] IN
    IF Len(h) >= c.k THEN h[1] ELSE IF h /= <<>> THEN h[Len(h)] ELSE -1

\* _evict as it would be if it took the first key in dict order whatever its score
LRUKCache_evict_first_inserted(c) ==
    IF c.items = <<>> THEN c
    ELSE [c EXCEPT !.items = Tail(@), !.used_bytes = @ - Head(c.items).s]

\* the first key, in dict order, whose score is minimal
LRUKCache_evict(c) ==
    IF c.items = <<>> THEN c
    ELSE LET i == CHOOSE i \in 1..Len(c.items) :
                    /\ \A j \in 1..Len(c.items) :
                          LRUKCache_score(c, c.items[i].k) <= LRUKCache_score(c, c.items[j].k)
                    /\ \A j \in 1..(i - 1) :
                          LRUKCache_score(c, c.items[j].k) > LRUKCache_score(c, c.items[i].k)
             victim == c.items[i]
         IN [c EXCEPT !.items = Pop(@, victim.k), !.used_bytes = @ - victim.s]

RECURSIVE LRUKCache_evict_loop(_, _)
LRUKCache_evict_loop(c, size_bytes) ==
    IF c.used_bytes + size_bytes > c.capacity_bytes /\ c.items /= <<>>
    THEN LRUKCache_evict_loop(LRUKCache_evict(c), size_bytes)
    ELSE c

LRUKCache_insert(c, key, size_bytes) ==
    IF size_bytes > c.capacity_bytes THEN c
    ELSE LET d == LRUKCache_evict_loop(c, size_bytes) IN
         [d EXCEPT !.items = SetItem(@, key, size_bytes), !.used_bytes = @ + size_bytes]

LRUKCache_get(c0, key, size_bytes) ==
    LET c == LRUKCache_record_access([c0 EXCEPT !.clock = @ + 1], key, c0.clock + 1) IN
    IF HasKey(c.items, key)
    THEN [c |-> [c EXCEPT !.hits = @ + 1], hit |-> TRUE]
    ELSE [c |-> LRUKCache_insert([c EXCEPT !.misses = @ + 1], key, size_bytes), hit |-> FALSE]

LRUKCache_put(c0, key, size_bytes) ==
    LET c == LRUKCache_record_access([c0 EXCEPT !.clock = @ + 1], key, c0.clock + 1) IN
    IF HasKey(c.items, key)
    THEN LRUKCache_insert([c EXCEPT !.used_bytes = @ - SizeOf(c.items, key),
                                    !.items = Pop(@, key)], key, size_bytes)
    ELSE LRUKCache_insert(c, key, size_bytes)

LRUKCache_stats(c) ==
    [hits |-> c.hits, misses |-> c.misses, hit_rate |-> HitRate(c.hits, c.hits + c.misses),
     used_bytes |-> c.used_bytes, capacity_bytes |-> c.capacity_bytes,
     items |-> Len(c.items), k |-> c.k]

LRUKGet(key, size_bytes) ==
    /\ CanCall("lruk", key)
    /\ LET r == LRUKCache_get(lruk, key, size_bytes) IN
       /\ lruk' = r.c
       /\ Call("get", key, size_bytes, NoMd, r.hit, IF r.hit THEN "l1" ELSE "miss", TRUE)
    /\ UNCHANGED <<policy, arc, lfu, mru, ttl, twoq, clock, clockpro, prio, part, hier, lru, fifo>>

LRUKPut(key, size_bytes) ==
    /\ CanCall("lruk", key)
    /\ lruk' = LRUKCache_put(lruk, key, size_bytes)
    /\ Call("put", key, size_bytes, NoMd, FALSE, "none", TRUE)
    /\ UNCHANGED <<policy, arc, lfu, mru, ttl, twoq, clock, clockpro, prio, part, hier, lru, fifo>>

\* ----------------------------------------------------------------- CLOCK
\* ref_bits: key -> bit (0 also for an absent key: _ref_bits.get(key, 0));
\* queue: deque of keys, head = hand position
ClockCache_init(cap) ==
    [capacity_bytes |-> cap, items |-> <<>>, ref_bits |-> [k \in KeyChoices |-> 0], queue |-> <<>>,
     used_bytes |-> 0, hits |-> 0, misses |-> 0]

Rotate(q) == IF q = <<>> THEN q ELSE Append(Tail(q), Head(q))

RECURSIVE ClockCache_evict_one(_)
ClockCache_evict_one(c) ==
    IF c.queue = <<>> THEN c
    ELSE LET candidate == Head(c.queue) IN
         IF ~HasKey(c.items, candidate)
         THEN ClockCache_evict_one([c EXCEPT !.queue = Tail(@)])
         ELSE IF c.ref_bits[candidate] = 0
         THEN [c EXCEPT !.queue = Tail(@),
                        !.items = Pop(@, candidate),
                        !.ref_bits[candidate] = 0,
                        !.used_bytes = @ - SizeOf(c.items, candidate)]
         ELSE ClockCache_evict_one([c EXCEPT !.ref_bits[candidate] = 0,
                                             !.queue = Rotate(@)])

RECURSIVE ClockCache_evict_loop(_, _)
ClockCache_evict_loop(c, size_bytes) ==
    IF c.used_bytes + size_bytes > c.capacity_bytes /\ c.items /= <<>>
    THEN LET d == ClockCache_evict_one(c) IN
         IF d = c THEN [c |-> c, ok |-> FALSE] ELSE ClockCache_evict_loop(d, size_bytes)
    ELSE [c |-> c, ok |-> TRUE]

ClockCache_insert(c, key, size_bytes) ==
    IF size_bytes > c.capacity_bytes THEN [c |-> c, ok |-> TRUE]
    ELSE LET r == ClockCache_evict_loop(c, size_bytes) IN
         IF ~r.ok THEN r
         ELSE [c |-> [r.c EXCEPT !.items = SetItem(@, key, size_bytes),
                                 !.ref_bits[key] = 1,
                                 !.queue = Append(@, key),
                                 !.used_bytes = @ + size_bytes],
               ok |-> TRUE]

ClockCache_get(c, key, size_bytes) ==
    IF HasKey(c.items, key)
    THEN [c |-> [c EXCEPT !.ref_bits[key] = 1, !.hits = @ + 1], hit |-> TRUE, ok |-> TRUE]
    ELSE LET r == ClockCache_insert([c EXCEPT !.misses = @ + 1], key, size_bytes) IN
         [c |-> r.c, hit |-> FALSE, ok |-> r.ok]

ClockCache_put(c, key, size_bytes) ==
    IF HasKey(c.items, key)
    THEN ClockCache_insert([c EXCEPT !.used_bytes = @ - SizeOf(c.items, key),
                                     !.items = Pop(@, key),
                                     !.ref_bits[key] = 0], key, size_bytes)
    ELSE ClockCache_insert(c, key, size_bytes)

ClockCache_stats(c) ==
    [hits |-> c.hits, misses |-> c.misses, hit_rate |-> HitRate(c.hits, c.hits + c.misses),
     used_bytes |-> c.used_bytes, capacity_bytes |-> c.capacity_bytes,
     items |-> Len(c.items)]

ClockGet(key, size_bytes) ==
    /\ CanCall("clock", key)
    /\ LET r == ClockCache_get(clock, key, size_bytes) IN
       /\ clock' = r.c
       /\ Call("get", key, size_bytes, NoMd, r.hit, IF r.hit THEN "l1" ELSE "miss", r.ok)
    /\ UNCHANGED <<policy, arc, lfu, mru, ttl, twoq, lruk, clockpro, prio, part, hier, lru, fifo>>

ClockPut(key, size_bytes) ==
    /\ CanCall("clock", key)
    /\ LET r == ClockCache_put(clock, key, size_bytes) IN
       /\ clock' = r.c
       /\ Call("put", key, size_bytes, NoMd, FALSE, "none", r.ok)
    /\ UNCHANGED <<policy, arc, lfu, mru, ttl, twoq, lruk, clockpro, prio, part, hier, lru, fifo>>

\* ------------------------------------------------------------- CLOCK-Pro
\* entries: dict of _Entry(size, ref, hot) as a sequence of [k, s, ref, hot];
\* order: the ring (deque of keys); ghost: FIFO of keys; ghost_set: its set
ClockProCache_init(cap) ==
    [capacity_bytes |-> cap, entries |-> <<>>, order |-> <<>>, ghost |-> <<>>, ghost_set |-> {},
     used_bytes |-> 0, hot_bytes |-> 0, hot_target |-> cap \div 2,
     hits |-> 0, misses |-> 0]

\* deque.remove(key): the first occurrence only (ValueError swallowed)
RemoveFirst(q, key) ==
    IF \E i \in 1..Len(q) : q[i] = key
    THEN LET i == CHOOSE i \in 1..Len(q) : q[i] = key /\ \A j \in 1..(i - 1) : q[j] /= key
         IN SubSeq(q, 1, i - 1) \o SubSeq(q, i + 1, Len(q))
    ELSE q

SetEntry(od, key, e) == [i \in 1..Len(od) |-> IF od[i].k = key THEN e ELSE od[i]]

RECURSIVE ClockProCache_trim_ghost(_)
ClockProCache_trim_ghost(c) ==
    IF Len(c.ghost) > 0 /\ Cardinality(c.ghost_set) > 0 /\ Len(c.ghost) > 2 * Len(c.entries)
    THEN ClockProCache_trim_ghost([c EXCEPT !.ghost = Tail(@),
                                            !.ghost_set = @ \ {Head(c.ghost)}])
    ELSE c

RECURSIVE ClockProCache_evict_one(_)
ClockProCache_evict_one(c) ==
    IF c.order = <<>> THEN c
    ELSE LET key == Head(c.order) IN
         IF ~HasKey(c.entries, key)
         THEN ClockProCache_evict_one([c EXCEPT !.order = Tail(@)])
         ELSE LET entry == Entry(c.entries, key) IN
              IF entry.ref = 1
              THEN LET promote == ~entry.hot /\ c.hot_bytes < c.hot_target IN
                   ClockProCache_evict_one(
                       [c EXCEPT !.entries = SetEntry(@, key,
                                     [entry EXCEPT !.ref = 0,
                                                   !.hot = IF promote THEN TRUE ELSE @]),
                                 !.hot_bytes = IF promote THEN @ + entry.s ELSE @,
                                 !.order = Rotate(@)])
              ELSE IF entry.hot
              THEN ClockProCache_evict_one(
                       [c EXCEPT !.entries = SetEntry(@, key, [entry EXCEPT !.hot = FALSE]),
                                 !.hot_bytes = @ - entry.s,
                                 !.order = Rotate(@)])
              ELSE ClockProCache_trim_ghost(
                       [c EXCEPT !.order = Tail(@),
                                 !.entries = Pop(@, key),
                                 !.used_bytes = @ - entry.s,
                                 !.ghost = Append(@, key),
                                 !.ghost_set = @ \cup {key}])

RECURSIVE ClockProCache_evict_loop(_, _)
ClockProCache_evict_loop(c, size_bytes) ==
    IF c.used_bytes + size_bytes > c.capacity_bytes /\ c.entries /= <<>>
    THEN LET d == ClockProCache_evict_one(c) IN
         IF d = c THEN [c |-> c, ok |-> FALSE] ELSE ClockProCache_evict_loop(d, size_bytes)
    ELSE [c |-> c, ok |-> TRUE]

\* _insert as it would be without the eviction loop
ClockProCache_insert_no_eviction(c, key, size_bytes) ==
    IF size_bytes > c.capacity_bytes THEN [c |-> c, ok |-> TRUE]
    ELSE [c |-> [c EXCEPT !.entries = Append(Pop(@, key),
                                  [k |-> key, s |-> size_bytes, ref |-> 1, hot |-> FALSE]),
                          !.order = Append(@, key),
                          !.used_bytes = @ + size_bytes],
          ok |-> TRUE]

ClockProCache_insert(c, key, size_bytes) ==
    IF size_bytes > c.capacity_bytes THEN [c |-> c, ok |-> TRUE]
    ELSE LET r == ClockProCache_evict_loop(c, size_bytes) IN
         IF ~r.ok THEN r
         ELSE [c |-> [r.c EXCEPT !.entries = Append(Pop(@, key),
                                       [k |-> key, s |-> size_bytes, ref |-> 1, hot |-> FALSE]),
                                 !.order = Append(@, key),
                                 !.used_bytes = @ + size_bytes],
               ok |-> TRUE]

\* get as it would be if hot_target moved by the requested size without the
\* cap at capacity_bytes and the floor at 0
ClockProCache_get_unclamped(c, key, size_bytes) ==
    IF HasKey(c.entries, key)
    THEN LET entry == Entry(c.entries, key) IN
         [c |-> [c EXCEPT !.entries = SetEntry(@, key, [entry EXCEPT !.ref = 1, !.hot = TRUE]),
                          !.hot_bytes = IF ~entry.hot THEN @ + entry.s ELSE @,
                          !.hits = @ + 1],
          hit |-> TRUE, ok |-> TRUE]
    ELSE LET m == [c EXCEPT !.misses = @ + 1]
             a == IF key \in m.ghost_set
                  THEN [m EXCEPT !.ghost_set = @ \ {key},
                                 !.ghost = RemoveFirst(@, key),
                                 !.hot_target = @ + size_bytes]
                  ELSE [m EXCEPT !.hot_target = @ - size_bytes]
             r == ClockProCache_insert(a, key, size_bytes)
         IN [c |-> r.c, hit |-> FALSE, ok |-> r.ok]

ClockProCache_get(c, key, size_bytes) ==
    IF HasKey(c.entries, key)
    THEN LET entry == Entry(c.entries, key) IN
         [c |-> [c EXCEPT !.entries = SetEntry(@, key, [entry EXCEPT !.ref = 1, !.hot = TRUE]),
                          !.hot_bytes = IF ~entry.hot THEN @ + entry.s ELSE @,
                          !.hits = @ + 1],
          hit |-> TRUE, ok |-> TRUE]
    ELSE LET m == [c EXCEPT !.misses = @ + 1]
             a == IF key \in m.ghost_set
                  THEN [m EXCEPT !.ghost_set = @ \ {key},
                                 !.ghost = RemoveFirst(@, key),
                                 !.hot_target = Min2(c.capacity_bytes, @ + size_bytes)]
                  ELSE [m EXCEPT !.hot_target = Max2(0, @ - size_bytes)]
             r == ClockProCache_insert(a, key, size_bytes)
         IN [c |-> r.c, hit |-> FALSE, ok |-> r.ok]

\* put as it would be if removing a hot entry left hot_bytes as it was
ClockProCache_put_keeps_hot_bytes(c, key, size_bytes) ==
    IF HasKey(c.entries, key)
    THEN LET entry == Entry(c.entries, key) IN
         ClockProCache_insert([c EXCEPT !.entries = Pop(@, key),
                                        !.used_bytes = @ - entry.s,
                                        !.order = RemoveFirst(@, key)], key, size_bytes)
    ELSE ClockProCache_insert(c, key, size_bytes)

ClockProCache_put(c, key, size_bytes) ==
    IF HasKey(c.entries, key)
    THEN LET entry == Entry(c.entries, key) IN
         ClockProCache_insert([c EXCEPT !.entries = Pop(@, key),
                                        !.used_bytes = @ - entry.s,
                                        !.hot_bytes = IF entry.hot THEN @ - entry.s ELSE @,
                                        !.order = RemoveFirst(@, key)], key, size_bytes)
    ELSE ClockProCache_insert(c, key, size_bytes)

ClockProCache_stats(c) ==
    [hits |-> c.hits, misses |-> c.misses, hit_rate |-> HitRate(c.hits, c.hits + c.misses),
     used_bytes |-> c.used_bytes, capacity_bytes |-> c.capacity_bytes,
     hot_target_bytes |-> c.hot_target, items |-> Len(c.entries)]

ClockProGet(key, size_bytes) ==
    /\ CanCall("clockpro", key)
    /\ LET r == ClockProCache_get(clockpro, key, size_bytes) IN
       /\ clockpro' = r.c
       /\ Call("get", key, size_bytes, NoMd, r.hit, IF r.hit THEN "l1" ELSE "miss", r.ok)
    /\ UNCHANGED <<policy, arc, lfu, mru, ttl, twoq, lruk, clock, prio, part, hier, lru, fifo>>

ClockProPut(key, size_bytes) ==
    /\ CanCall("clockpro", key)
    /\ LET r == ClockProCache_put(clockpro, key, size_bytes) IN
       /\ clockpro' = r.c
       /\ Call("put", key, size_bytes, NoMd, FALSE, "none", r.ok)
    /\ UNCHANGED <<policy, arc, lfu, mru, ttl, twoq, lruk, clock, prio, part, hier, lru, fifo>>

\* ---------------------------------------------------------- Priority-LRU
\* buckets: priority -> OrderedDict (a missing bucket is the empty one);
\* priorities: key -> priority (None = key absent); pinned: set of keys
MaxPriority == 1
PriorityChoices == 0..MaxPriority

PriorityLRUCache_init(cap) ==
    [capacity_bytes |-> cap, buckets |-> [q \in PriorityChoices |-> <<>>],
     priorities |-> [k \in KeyChoices |-> None], pinned |-> {},
     used_bytes |-> 0, hits |-> 0, misses |-> 0]

\* <<key, priority>> of the victim, or <<>> for None
PriorityLRUCache_select_victim(c) ==
    LET free(q) == SelectSeq(c.buckets[q], LAMBDA e : e.k \notin c.pinned)
        withFree == {q \in PriorityChoices : free(q) /= <<>>}
        nonEmpty == {q \in PriorityChoices : c.buckets[q] /= <<>>}
        lowest(S) == CHOOSE q \in S : \A r \in S : q <= r
    IN IF withFree /= {} THEN <<Head(free(lowest(withFree))).k, lowest(withFree)>>
       ELSE IF nonEmpty /= {} THEN <<Head(c.buckets[lowest(nonEmpty)]).k, lowest(nonEmpty)>>
       ELSE <<>>

RECURSIVE PriorityLRUCache_evict_if_needed(_, _)
PriorityLRUCache_evict_if_needed(c, incoming_size) ==
    IF c.used_bytes + incoming_size > c.capacity_bytes
    THEN LET victim == PriorityLRUCache_select_victim(c) IN
         IF victim = <<>> THEN c
         ELSE LET key == victim[1]
                  priority == victim[2]
              IN PriorityLRUCache_evict_if_needed(
                     [c EXCEPT !.buckets[priority] = Pop(@, key),
                               !.priorities[key] = None,
                               !.pinned = @ \ {key},
                               !.used_bytes = @ - SizeOf(c.buckets[priority], key)],
                     incoming_size)
    ELSE c

PriorityLRUCache_insert(c, key, size_bytes, md) ==
    IF size_bytes > c.capacity_bytes THEN c
    ELSE LET priority == md.priority
             p == [c EXCEPT !.pinned = IF md.pinned THEN @ \cup {key} ELSE @]
             d == PriorityLRUCache_evict_if_needed(p, size_bytes)
         IN [d EXCEPT !.priorities[key] = priority,
                      !.buckets[priority] = SetItem(@, key, size_bytes),
                      !.used_bytes = @ + size_bytes]

PriorityLRUCache_get(c, key, size_bytes, md) ==
    IF c.priorities[key] /= None
    THEN LET priority == c.priorities[key] IN
         [c |-> [c EXCEPT !.buckets[priority] = IF HasKey(@, key) THEN MoveToEnd(@, key) ELSE @,
                          !.hits = @ + 1],
          hit |-> TRUE]
    ELSE [c |-> PriorityLRUCache_insert([c EXCEPT !.misses = @ + 1], key, size_bytes, md),
          hit |-> FALSE]

PriorityLRUCache_put(c, key, size_bytes, md) ==
    IF c.priorities[key] /= None
    THEN LET priority == c.priorities[key]
             bucket == c.buckets[priority]
         IN PriorityLRUCache_insert(
                [c EXCEPT !.buckets[priority] = Pop(@, key),
                          !.used_bytes = IF HasKey(bucket, key) THEN @ - SizeOf(bucket, key)
                                         ELSE @],
                key, size_bytes, md)
    ELSE PriorityLRUCache_insert(c, key, size_bytes, md)

PriorityLRUCache_stats(c) ==
    [hits |-> c.hits, misses |-> c.misses, hit_rate |-> HitRate(c.hits, c.hits + c.misses),
     used_bytes |-> c.used_bytes, capacity_bytes |-> c.capacity_bytes,
     items |-> Cardinality({k \in KeyChoices : c.priorities[k] /= None}),
     pinned |-> Cardinality(c.pinned)]

PriorityLRUGet(key, size_bytes, priority, pinned) ==
    /\ CanCall("priority_lru", key)
    /\ LET md == [NoMd EXCEPT !.priority = priority, !.pinned = pinned]
           r == PriorityLRUCache_get(prio, key, size_bytes, md) IN
       /\ prio' = r.c
       /\ Call("get", key, size_bytes, md, r.hit, IF r.hit THEN "l1" ELSE "miss", TRUE)
    /\ UNCHANGED <<policy, arc, lfu, mru, ttl, twoq, lruk, clock, clockpro, part, hier, lru, fifo>>

PriorityLRUPut(key, size_bytes, priority, pinned) ==
    /\ CanCall("priority_lru", key)
    /\ LET md == [NoMd EXCEPT !.priority = priority, !.pinned = pinned] IN
       /\ prio' = PriorityLRUCache_put(prio, key, size_bytes, md)
       /\ Call("put", key, size_bytes, md, FALSE, "none", TRUE)
    /\ UNCHANGED <<policy, arc, lfu, mru, ttl, twoq, lruk, clock, clockpro, part, hier, lru, fifo>>

\* ------------------------------------------------------------ LRU, FIFO
\* kvcache_sim/cache/lru.py and fifo.py: ordered map key -> size with byte
\* accounting; the victim is the oldest end; LRU moves a key to the newest
\* end on a hit, FIFO does not.
LRUCache_init(cap) ==
    [capacity_bytes |-> cap, items |-> <<>>, used_bytes |-> 0, hits |-> 0, misses |-> 0]

LRUCache_contains(c, key) == HasKey(c.items, key)

RECURSIVE LRUCache_evict_loop(_, _)
LRUCache_evict_loop(c, size_bytes) ==
    IF c.used_bytes + size_bytes > c.capacity_bytes /\ c.items /= <<>>
    THEN LRUCache_evict_loop([c EXCEPT !.items = Tail(@), !.used_bytes = @ - Head(c.items).s],
                             size_bytes)
    ELSE c

LRUCache_insert(c, key, size_bytes) ==
    IF size_bytes > c.capacity_bytes THEN c
    ELSE LET d == LRUCache_evict_loop(c, size_bytes) IN
         [d EXCEPT !.items = SetItem(@, key, size_bytes), !.used_bytes = @ + size_bytes]

LRUCache_get(c, key, size_bytes) ==
    IF HasKey(c.items, key)
    THEN [c |-> [c EXCEPT !.items = MoveToEnd(@, key), !.hits = @ + 1], hit |-> TRUE]
    ELSE [c |-> LRUCache_insert([c EXCEPT !.misses = @ + 1], key, size_bytes), hit |-> FALSE]

LRUCache_put(c, key, size_bytes) ==
    IF HasKey(c.items, key)
    THEN LRUCache_insert([c EXCEPT !.used_bytes = @ - SizeOf(c.items, key),
                                   !.items = Pop(@, key)], key, size_bytes)
    ELSE LRUCache_insert(c, key, size_bytes)

LRUCache_stats(c) ==
    [hits |-> c.hits, misses |-> c.misses, hit_rate |-> HitRate(c.hits, c.hits + c.misses),
     used_bytes |-> c.used_bytes, capacity_bytes |-> c.capacity_bytes,
     items |-> Len(c.items)]

FIFOCache_get(c, key, size_bytes) ==
    IF HasKey(c.items, key)
    THEN [c |-> [c EXCEPT !.hits = @ + 1], hit |-> TRUE]
    ELSE [c |-> LRUCache_insert([c EXCEPT !.misses = @ + 1], key, size_bytes), hit |-> FALSE]

LRUGet(key, size_bytes) ==
    /\ CanCall("lru", key)
    /\ LET r == LRUCache_get(lru, key, size_bytes) IN
       /\ lru' = r.c
       /\ Call("get", key, size_bytes, NoMd, r.hit, IF r.hit THEN "l1" ELSE "miss", TRUE)
    /\ UNCHANGED <<policy, arc, lfu, mru, ttl, twoq, lruk, clock, clockpro, prio, part, hier, fifo>>

LRUPut(key, size_bytes) ==
    /\ CanCall("lru", key)
    /\ lru' = LRUCache_put(lru, key, size_bytes)
    /\ Call("put", key, size_bytes, NoMd, FALSE, "none", TRUE)
    /\ UNCHANGED <<policy, arc, lfu, mru, ttl, twoq, lruk, clock, clockpro, prio, part, hier, fifo>>

FIFOGet(key, size_bytes) ==
    /\ CanCall("fifo", key)
    /\ LET r == FIFOCache_get(fifo, key, size_bytes) IN
       /\ fifo' = r.c
       /\ Call("get", key, size_bytes, NoMd, r.hit, IF r.hit THEN "l1" ELSE "miss", TRUE)
    /\ UNCHANGED <<policy, arc, lfu, mru, ttl, twoq, lruk, clock, clockpro, prio, part, hier, lru>>

FIFOPut(key, size_bytes) ==
    /\ CanCall("fifo", key)
    /\ fifo' = LRUCache_put(fifo, key, size_bytes)
    /\ Call("put", key, size_bytes, NoMd, FALSE, "none", TRUE)
    /\ UNCHANGED <<policy, arc, lfu, mru, ttl, twoq, lruk, clock, clockpro, prio, part, hier, lru>>

\* ------------------------------------------------------- Partitioned LRU
\* caches: one LRUCache per partition (0-based index idx is caches[idx + 1])
MaxTenant == 1
MaxTokens == 6
MaxNegTokens == 2
MaxBlockCount == 3
MaxNegBlockCount == 1
MaxBlockSize == 3
MaxBlocks == 3
MaxRequests == 2
MaxInputLength == 3
MaxSequenceLength == 2
block_size_tokens == 1
model_kv_bytes_per_token == 1
TenantChoices == {None} \cup (0..MaxTenant)

PartitionedLRUCache_init(cap, parts) ==
    [capacity_bytes |-> cap, partitions |-> Max2(1, parts),
     caches |-> [i \in 1..Max2(1, parts) |-> LRUCache_init(cap \div Max2(1, parts))],
     hits |-> 0, misses |-> 0]

\* _select_partition as it would be if every tenant shared partition 0
PartitionedLRUCache_select_partition_shared(c, md) == 0

\* hash(tenant) of a small non-negative int is the int itself
PartitionedLRUCache_select_partition(c, md) ==
    IF md.tenant_id = None THEN 0 ELSE md.tenant_id % c.partitions

PartitionedLRUCache_get(c, key, size_bytes, md) ==
    LET idx == PartitionedLRUCache_select_partition(c, md)
        r == LRUCache_get(c.caches[idx + 1], key, size_bytes)
    IN [c |-> [c EXCEPT !.caches[idx + 1] = r.c,
                        !.hits = IF r.hit THEN @ + 1 ELSE @,
                        !.misses = IF r.hit THEN @ ELSE @ + 1],
        hit |-> r.hit]

PartitionedLRUCache_put(c, key, size_bytes, md) ==
    LET idx == PartitionedLRUCache_select_partition(c, md) IN
    [c EXCEPT !.caches[idx + 1] = LRUCache_put(@, key, size_bytes)]

RECURSIVE SumUsed(_)
SumUsed(cs) == IF cs = <<>> THEN 0 ELSE Head(cs).used_bytes + SumUsed(Tail(cs))

PartitionedLRUCache_stats(c) ==
    [hits |-> c.hits, misses |-> c.misses, hit_rate |-> HitRate(c.hits, c.hits + c.misses),
     used_bytes |-> SumUsed(c.caches), capacity_bytes |-> c.capacity_bytes,
     partitions |-> c.partitions]

PartitionedLRUGet(key, size_bytes, tenant) ==
    /\ CanCall("tenant_lru", key)
    /\ LET md == [NoMd EXCEPT !.tenant_id = tenant]
           r == PartitionedLRUCache_get(part, key, size_bytes, md) IN
       /\ part' = r.c
       /\ Call("get", key, size_bytes, md, r.hit, IF r.hit THEN "l1" ELSE "miss", TRUE)
    /\ UNCHANGED <<policy, arc, lfu, mru, ttl, twoq, lruk, clock, clockpro, prio, hier, lru, fifo>>

PartitionedLRUPut(key, size_bytes, tenant) ==
    /\ CanCall("tenant_lru", key)
    /\ LET md == [NoMd EXCEPT !.tenant_id = tenant] IN
       /\ part' = PartitionedLRUCache_put(part, key, size_bytes, md)
       /\ Call("put", key, size_bytes, md, FALSE, "none", TRUE)
    /\ UNCHANGED <<policy, arc, lfu, mru, ttl, twoq, lruk, clock, clockpro, prio, hier, lru, fifo>>

\* ------------------------------------------------------ Hierarchical LRU
HierarchicalLRUCache_init(l1_cap, l2_cap) ==
    [l1 |-> LRUCache_init(l1_cap), l2 |-> LRUCache_init(l2_cap),
     l1_hits |-> 0, l2_hits |-> 0, misses |-> 0]

\* get as it would be if a hit in L2 did not promote the key into L1
HierarchicalLRUCache_get_no_promotion(c, key, size_bytes) ==
    IF LRUCache_contains(c.l1, key)
    THEN [c |-> [c EXCEPT !.l1_hits = @ + 1, !.l1 = LRUCache_get(@, key, size_bytes).c],
          hit |-> TRUE, level |-> "l1"]
    ELSE IF LRUCache_contains(c.l2, key)
    THEN [c |-> [c EXCEPT !.l2_hits = @ + 1,
                          !.l2 = LRUCache_get(@, key, size_bytes).c],
          hit |-> TRUE, level |-> "l2"]
    ELSE [c |-> [c EXCEPT !.misses = @ + 1, !.l2 = LRUCache_get(@, key, size_bytes).c],
          hit |-> FALSE, level |-> "miss"]

HierarchicalLRUCache_get(c, key, size_bytes) ==
    IF LRUCache_contains(c.l1, key)
    THEN [c |-> [c EXCEPT !.l1_hits = @ + 1, !.l1 = LRUCache_get(@, key, size_bytes).c],
          hit |-> TRUE, level |-> "l1"]
    ELSE IF LRUCache_contains(c.l2, key)
    THEN [c |-> [c EXCEPT !.l2_hits = @ + 1,
                          !.l2 = LRUCache_get(@, key, size_bytes).c,
                          !.l1 = LRUCache_get(@, key, size_bytes).c],
          hit |-> TRUE, level |-> "l2"]
    ELSE [c |-> [c EXCEPT !.misses = @ + 1, !.l2 = LRUCache_get(@, key, size_bytes).c],
          hit |-> FALSE, level |-> "miss"]

HierarchicalLRUCache_put(c, key, size_bytes) ==
    [c EXCEPT !.l2 = LRUCache_put(@, key, size_bytes)]

HierarchicalLRUCache_stats(c) ==
    [l1_hits |-> c.l1_hits, l2_hits |-> c.l2_hits, misses |-> c.misses,
     hit_rate |-> HitRate(c.l1_hits + c.l2_hits, c.l1_hits + c.l2_hits + c.misses),
     l1_used_bytes |-> LRUCache_stats(c.l1).used_bytes,
     l1_capacity_bytes |-> LRUCache_stats(c.l1).capacity_bytes,
     l2_used_bytes |-> LRUCache_stats(c.l2).used_bytes,
     l2_capacity_bytes |-> LRUCache_stats(c.l2).capacity_bytes]

HierarchicalLRUGet(key, size_bytes) ==
    /\ CanCall("hierarchical_lru", key)
    /\ LET r == HierarchicalLRUCache_get(hier, key, size_bytes) IN
       /\ hier' = r.c
       /\ Call("get", key, size_bytes, NoMd, r.hit, r.level, TRUE)
    /\ UNCHANGED <<policy, arc, lfu, mru, ttl, twoq, lruk, clock, clockpro, prio, part, lru, fifo>>

HierarchicalLRUPut(key, size_bytes) ==
    /\ CanCall("hierarchical_lru", key)
    /\ hier' = HierarchicalLRUCache_put(hier, key, size_bytes)
    /\ Call("put", key, size_bytes, NoMd, FALSE, "none", TRUE)
    /\ UNCHANGED <<policy, arc, lfu, mru, ttl, twoq, lruk, clock, clockpro, prio, part, lru, fifo>>

\* ------------------------------------------------------ the replay engine
TokenChoices == (0 - MaxNegTokens)..MaxTokens
BlockCountChoices == (0 - MaxNegBlockCount)..MaxBlockCount
BlockSizeChoices == 1..MaxBlockSize

\* _split_tokens: the loop of lines 115-120, from block i (0-based) on
RECURSIVE _split_tokens_loop(_, _, _, _, _)
_split_tokens_loop(i, num_blocks, block_size, tokens_left, sizes) ==
    IF i >= num_blocks THEN sizes
    ELSE _split_tokens_loop(i + 1, num_blocks, block_size,
             Max2(0, tokens_left - block_size),
             Append(sizes, IF i = num_blocks - 1
                           THEN Max2(1, tokens_left)
                           ELSE Min2(block_size, Max2(1, tokens_left))))

_split_tokens_fixed_blocks(total_tokens, num_blocks, block_size) ==
    IF num_blocks <= 0 THEN <<>> ELSE [i \in 1..num_blocks |-> block_size]

_split_tokens(total_tokens, num_blocks, block_size) ==
    IF num_blocks <= 0 THEN <<>>
    ELSE IF total_tokens <= 0 THEN [i \in 1..num_blocks |-> block_size]
    ELSE _split_tokens_loop(0, num_blocks, block_size, total_tokens, <<>>)

RECURSIVE SumSeq(_)
SumSeq(s) == IF s = <<>> THEN 0 ELSE Head(s) + SumSeq(Tail(s))

NoBuild == [status |-> "none", error |-> "none", tag |-> "none", l1 |-> None, l2 |-> None]
NoRequest ==
    [request_id |-> 0, sequence_id |-> 0, sequence_length |-> 0, request_type |-> "prefill",
     timestamp_ms |-> None, input_length |-> None, output_length |-> None, priority |-> 0,
     pinned |-> FALSE, tenant_id |-> None, block_hashes |-> <<>>]
\* analysis/metrics.py, MetricsCollector: the counters of a run
MetricsCollector_init ==
    [total_requests |-> 0, request_full_prefix_hits |-> 0, request_full_prefix_misses |-> 0,
     bytes_requested |-> 0, bytes_cached |-> 0, bytes_read |-> 0, bytes_written |-> 0,
     prefix_block_hits |-> 0, prefix_block_total |-> 0, total_tokens |-> 0]

\* record_request as it would be if bytes_cached grew on every request
MetricsCollector_record_request_caches_all(m, req, hit, kv_bytes, read_bytes, write_bytes, block_hits, block_total) ==
    [m EXCEPT !.total_requests = @ + 1,
              !.bytes_requested = @ + kv_bytes,
              !.bytes_read = @ + read_bytes,
              !.bytes_written = @ + write_bytes,
              !.total_tokens = @ + req.sequence_length,
              !.prefix_block_hits = @ + block_hits,
              !.prefix_block_total = @ + block_total,
              !.request_full_prefix_hits = IF hit THEN @ + 1 ELSE @,
              !.bytes_cached = @ + kv_bytes,
              !.request_full_prefix_misses = IF hit THEN @ ELSE @ + 1]

MetricsCollector_record_request(m, req, hit, kv_bytes, read_bytes, write_bytes, block_hits, block_total) ==
    [m EXCEPT !.total_requests = @ + 1,
              !.bytes_requested = @ + kv_bytes,
              !.bytes_read = @ + read_bytes,
              !.bytes_written = @ + write_bytes,
              !.total_tokens = @ + req.sequence_length,
              !.prefix_block_hits = @ + block_hits,
              !.prefix_block_total = @ + block_total,
              !.request_full_prefix_hits = IF hit THEN @ + 1 ELSE @,
              !.bytes_cached = IF hit THEN @ + kv_bytes ELSE @,
              !.request_full_prefix_misses = IF hit THEN @ ELSE @ + 1]

\* n: requests handled so far; status: "none", "recorded" (record_request was
\* called), "TypeError" (a call raised), "looping" (a call never returned);
\* calls: the cache calls of the latest request, in order; metrics: the
\* collector of the run
NoLedger ==
    [n |-> 0, status |-> "none", req |-> NoRequest, calls |-> <<>>, block_tokens |-> <<>>,
     hit |-> FALSE, level |-> "none", kv_bytes_total |-> 0, read_bytes |-> 0,
     write_bytes |-> 0, block_hits |-> 0, block_total |-> 0, hit_tokens |-> 0,
     l1_bytes |-> 0, l2_bytes |-> 0, miss_bytes |-> 0,
     metrics |-> MetricsCollector_init]
NoSplit == [total_tokens |-> 0, num_blocks |-> 0, block_size |-> 1, sizes |-> <<>>,
            done |-> FALSE]

\* ------------------------------------------------------- the whole system
\* build_cache: one cache of the configured policy; the objects of the other
\* classes are never touched
PolicyChoices == {"lru", "lfu", "fifo", "mru", "ttl", "twoq", "arc", "lruk", "clock",
                  "clockpro", "priority_lru", "tenant_lru", "hierarchical_lru"}

Init ==
    /\ policy \in PolicyChoices
    /\ arc = ARCCache_init(capacity_bytes)
    /\ lfu = LFUCache_init(capacity_bytes)
    /\ mru = MRUCache_init(capacity_bytes)
    /\ ttl \in {TTLCache_init(capacity_bytes, t) :
                   t \in IF policy = "ttl" THEN TtlChoices ELSE {0}}
    /\ twoq = TwoQCache_init(capacity_bytes)
    /\ lruk \in {LRUKCache_init(capacity_bytes, k) :
                    k \in IF policy = "lruk" THEN KChoices ELSE {2}}
    /\ clock = ClockCache_init(capacity_bytes)
    /\ clockpro = ClockProCache_init(capacity_bytes)
    /\ prio = PriorityLRUCache_init(capacity_bytes)
    /\ part = PartitionedLRUCache_init(capacity_bytes, partitions)
    /\ hier = HierarchicalLRUCache_init(l1_capacity_bytes, l2_capacity_bytes)
    /\ lru = LRUCache_init(capacity_bytes)
    /\ fifo = LRUCache_init(capacity_bytes)
    /\ last = [op |-> "none", key |-> 0, size |-> 0, tenant_id |-> None,
               timestamp_ms |-> None, hit |-> FALSE, level |-> "none"]
    /\ nkeys = 0
    /\ positive = TRUE
    /\ gets = 0
    /\ puts = 0
    /\ pc = "idle"
    /\ build = NoBuild
    /\ ledger = NoLedger
    /\ split = NoSplit

Next ==
    \/ \E key \in KeyChoices, size_bytes \in SizeChoices : ARCGet(key, size_bytes)
    \/ \E key \in KeyChoices, size_bytes \in SizeChoices : ARCPut(key, size_bytes)
    \/ \E key \in KeyChoices, size_bytes \in SizeChoices : LFUGet(key, size_bytes)
    \/ \E key \in KeyChoices, size_bytes \in SizeChoices : LFUPut(key, size_bytes)
    \/ \E key \in KeyChoices, size_bytes \in SizeChoices : MRUGet(key, size_bytes)
    \/ \E key \in KeyChoices, size_bytes \in SizeChoices : MRUPut(key, size_bytes)
    \/ \E key \in KeyChoices, size_bytes \in SizeChoices, ts \in TsChoices :
          TTLGet(key, size_bytes, ts)
    \/ \E key \in KeyChoices, size_bytes \in SizeChoices, ts \in TsChoices :
          TTLPut(key, size_bytes, ts)
    \/ \E key \in KeyChoices, size_bytes \in SizeChoices : TwoQGet(key, size_bytes)
    \/ \E key \in KeyChoices, size_bytes \in SizeChoices : TwoQPut(key, size_bytes)
    \/ \E key \in KeyChoices, size_bytes \in SizeChoices : LRUKGet(key, size_bytes)
    \/ \E key \in KeyChoices, size_bytes \in SizeChoices : LRUKPut(key, size_bytes)
    \/ \E key \in KeyChoices, size_bytes \in SizeChoices : ClockGet(key, size_bytes)
    \/ \E key \in KeyChoices, size_bytes \in SizeChoices : ClockPut(key, size_bytes)
    \/ \E key \in KeyChoices, size_bytes \in SizeChoices : ClockProGet(key, size_bytes)
    \/ \E key \in KeyChoices, size_bytes \in SizeChoices : ClockProPut(key, size_bytes)
    \/ \E key \in KeyChoices, size_bytes \in SizeChoices, priority \in PriorityChoices,
          pinned \in BOOLEAN : PriorityLRUGet(key, size_bytes, priority, pinned)
    \/ \E key \in KeyChoices, size_bytes \in SizeChoices, priority \in PriorityChoices,
          pinned \in BOOLEAN : PriorityLRUPut(key, size_bytes, priority, pinned)
    \/ \E key \in KeyChoices, size_bytes \in SizeChoices : LRUGet(key, size_bytes)
    \/ \E key \in KeyChoices, size_bytes \in SizeChoices : LRUPut(key, size_bytes)
    \/ \E key \in KeyChoices, size_bytes \in SizeChoices : FIFOGet(key, size_bytes)
    \/ \E key \in KeyChoices, size_bytes \in SizeChoices : FIFOPut(key, size_bytes)
    \/ \E key \in KeyChoices, size_bytes \in SizeChoices, tenant \in TenantChoices :
          PartitionedLRUGet(key, size_bytes, tenant)
    \/ \E key \in KeyChoices, size_bytes \in SizeChoices, tenant \in TenantChoices :
          PartitionedLRUPut(key, size_bytes, tenant)
    \/ \E key \in KeyChoices, size_bytes \in SizeChoices : HierarchicalLRUGet(key, size_bytes)
    \/ \E key \in KeyChoices, size_bytes \in SizeChoices : HierarchicalLRUPut(key, size_bytes)

Spec == Init /\ [][Next]_vars

\* every cache object as its constructor leaves it, and a driver that has
\* made no call
Constructed ==
    /\ arc = ARCCache_init(capacity_bytes)
    /\ lfu = LFUCache_init(capacity_bytes)
    /\ mru = MRUCache_init(capacity_bytes)
    /\ ttl = TTLCache_init(capacity_bytes, 0)
    /\ twoq = TwoQCache_init(capacity_bytes)
    /\ lruk = LRUKCache_init(capacity_bytes, 2)
    /\ clock = ClockCache_init(capacity_bytes)
    /\ clockpro = ClockProCache_init(capacity_bytes)
    /\ prio = PriorityLRUCache_init(capacity_bytes)
    /\ part = PartitionedLRUCache_init(capacity_bytes, partitions)
    /\ hier = HierarchicalLRUCache_init(l1_capacity_bytes, l2_capacity_bytes)
    /\ lru = LRUCache_init(capacity_bytes)
    /\ fifo = LRUCache_init(capacity_bytes)
    /\ last = [op |-> "none", key |-> 0, size |-> 0, tenant_id |-> None,
               timestamp_ms |-> None, hit |-> FALSE, level |-> "none"]
    /\ nkeys = 0
    /\ positive = TRUE
    /\ gets = 0
    /\ puts = 0
    /\ pc = "idle"

\* ---- the block-split rule on its own: the inputs are drawn at the start,
\* ---- the one action applies _split_tokens to them
SplitInit ==
    /\ Constructed
    /\ policy = "none"
    /\ build = NoBuild
    /\ ledger = NoLedger
    /\ split \in {[total_tokens |-> T, num_blocks |-> N, block_size |-> B,
                   sizes |-> <<>>, done |-> FALSE] :
                     T \in TokenChoices, N \in BlockCountChoices, B \in BlockSizeChoices}

SplitTokens ==
    /\ ~split.done
    /\ split' = [split EXCEPT
                   !.sizes = _split_tokens(split.total_tokens, split.num_blocks,
                                          split.block_size),
                   !.done = TRUE]
    /\ UNCHANGED <<policy, arc, lfu, mru, ttl, twoq, lruk, clock, clockpro, prio, part,
                   hier, lru, fifo, last, gets, puts, nkeys, positive, pc, build, ledger>>

SplitNext == SplitTokens

SplitSpec == SplitInit /\ [][SplitNext]_vars

\* ---- the ARC cache on its own, driven for MaxARCOps calls with the sizes 0
\* and capacity_bytes, long enough for a key to travel T1 -> T2 -> B2 and be
\* asked for again while T1 and T2 are both occupied
ARCSizeChoices == {0, capacity_bytes}

ARCInit ==
    /\ Constructed
    /\ policy = "arc"
    /\ build = NoBuild
    /\ ledger = NoLedger
    /\ split = NoSplit

CanCallARC(key) ==
    /\ pc = "idle"
    /\ policy = "arc"
    /\ gets + puts < MaxARCOps
    /\ key <= nkeys + 1

ARCLongGet(key, size_bytes) ==
    /\ CanCallARC(key)
    /\ \E r \in {ARCCache_get(arc, key, size_bytes)} :
          /\ arc' = r.c
          /\ Call("get", key, size_bytes, NoMd, r.hit, IF r.hit THEN "l1" ELSE "miss", TRUE)
    /\ UNCHANGED <<policy, lfu, mru, ttl, twoq, lruk, clock, clockpro, prio, part, hier, lru, fifo>>

ARCLongPut(key, size_bytes) ==
    /\ CanCallARC(key)
    /\ arc' = ARCCache_put(arc, key, size_bytes)
    /\ Call("put", key, size_bytes, NoMd, FALSE, "none", TRUE)
    /\ UNCHANGED <<policy, lfu, mru, ttl, twoq, lruk, clock, clockpro, prio, part, hier, lru, fifo>>

ARCNext ==
    \/ \E key \in KeyChoices, size_bytes \in ARCSizeChoices : ARCLongGet(key, size_bytes)
    \/ \E key \in KeyChoices, size_bytes \in ARCSizeChoices : ARCLongPut(key, size_bytes)

ARCSpec == ARCInit /\ [][ARCNext]_vars

\* ---- an LRU-K cache with k = 1 and an LRU cache of the same capacity, given
\* the same sequence of MaxPairOps calls
PairInit ==
    /\ policy = "lruk"
    /\ lruk = LRUKCache_init(capacity_bytes, 1)
    /\ lru = LRUCache_init(capacity_bytes)
    /\ arc = ARCCache_init(capacity_bytes)
    /\ lfu = LFUCache_init(capacity_bytes)
    /\ mru = MRUCache_init(capacity_bytes)
    /\ ttl = TTLCache_init(capacity_bytes, 0)
    /\ twoq = TwoQCache_init(capacity_bytes)
    /\ clock = ClockCache_init(capacity_bytes)
    /\ clockpro = ClockProCache_init(capacity_bytes)
    /\ prio = PriorityLRUCache_init(capacity_bytes)
    /\ part = PartitionedLRUCache_init(capacity_bytes, partitions)
    /\ hier = HierarchicalLRUCache_init(l1_capacity_bytes, l2_capacity_bytes)
    /\ fifo = LRUCache_init(capacity_bytes)
    /\ last = [op |-> "none", key |-> 0, size |-> 0, tenant_id |-> None,
               timestamp_ms |-> None, hit |-> FALSE, level |-> "none"]
    /\ nkeys = 0
    /\ positive = TRUE
    /\ gets = 0
    /\ puts = 0
    /\ pc = "idle"
    /\ build = NoBuild
    /\ ledger = NoLedger
    /\ split = NoSplit

CanCallPair(key) ==
    /\ pc = "idle"
    /\ policy = "lruk"
    /\ gets + puts < MaxPairOps
    /\ key <= nkeys + 1

PairGet(key, size_bytes) ==
    /\ CanCallPair(key)
    /\ \E r \in {LRUKCache_get(lruk, key, size_bytes)} :
          /\ lruk' = r.c
          /\ Call("get", key, size_bytes, NoMd, r.hit, IF r.hit THEN "l1" ELSE "miss", TRUE)
    /\ lru' = LRUCache_get(lru, key, size_bytes).c
    /\ UNCHANGED <<policy, arc, lfu, mru, ttl, twoq, clock, clockpro, prio, part, hier, fifo>>

PairPut(key, size_bytes) ==
    /\ CanCallPair(key)
    /\ lruk' = LRUKCache_put(lruk, key, size_bytes)
    /\ lru' = LRUCache_put(lru, key, size_bytes)
    /\ Call("put", key, size_bytes, NoMd, FALSE, "none", TRUE)
    /\ UNCHANGED <<policy, arc, lfu, mru, ttl, twoq, clock, clockpro, prio, part, hier, fifo>>

PairNext ==
    \/ \E key \in KeyChoices, size_bytes \in SizeChoices : PairGet(key, size_bytes)
    \/ \E key \in KeyChoices, size_bytes \in SizeChoices : PairPut(key, size_bytes)

PairSpec == PairInit /\ [][PairNext]_vars

\* ---- the CLOCK-Pro cache on its own, driven for MaxClockProOps calls: long
\* enough for a key to be evicted into the ghost list and for two more calls
\* to follow
ClockProInit ==
    /\ Constructed
    /\ policy = "clockpro"
    /\ build = NoBuild
    /\ ledger = NoLedger
    /\ split = NoSplit

CanCallClockPro(key) ==
    /\ pc = "idle"
    /\ policy = "clockpro"
    /\ gets + puts < MaxClockProOps
    /\ key <= nkeys + 1

ClockProLongGet(key, size_bytes) ==
    /\ CanCallClockPro(key)
    /\ \E r \in {ClockProCache_get(clockpro, key, size_bytes)} :
          /\ clockpro' = r.c
          /\ Call("get", key, size_bytes, NoMd, r.hit, IF r.hit THEN "l1" ELSE "miss", r.ok)
    /\ UNCHANGED <<policy, arc, lfu, mru, ttl, twoq, lruk, clock, prio, part, hier, lru, fifo>>

ClockProLongPut(key, size_bytes) ==
    /\ CanCallClockPro(key)
    /\ \E r \in {ClockProCache_put(clockpro, key, size_bytes)} :
          /\ clockpro' = r.c
          /\ Call("put", key, size_bytes, NoMd, FALSE, "none", r.ok)
    /\ UNCHANGED <<policy, arc, lfu, mru, ttl, twoq, lruk, clock, prio, part, hier, lru, fifo>>

ClockProNext ==
    \/ \E key \in KeyChoices, size_bytes \in SizeChoices : ClockProLongGet(key, size_bytes)
    \/ \E key \in KeyChoices, size_bytes \in SizeChoices : ClockProLongPut(key, size_bytes)

ClockProSpec == ClockProInit /\ [][ClockProNext]_vars

\* ------------------------------------------------ views used by the claims
\* stats() of the cache that was built
Stats ==
    CASE policy = "arc" -> ARCCache_stats(arc)
      [] policy = "lfu" -> LFUCache_stats(lfu)
      [] policy = "mru" -> MRUCache_stats(mru)
      [] policy = "ttl" -> TTLCache_stats(ttl)
      [] policy = "twoq" -> TwoQCache_stats(twoq)
      [] policy = "lruk" -> LRUKCache_stats(lruk)
      [] policy = "clock" -> ClockCache_stats(clock)
      [] policy = "clockpro" -> ClockProCache_stats(clockpro)
      [] policy = "priority_lru" -> PriorityLRUCache_stats(prio)
      [] policy = "lru" -> LRUCache_stats(lru)
      [] policy = "fifo" -> LRUCache_stats(fifo)
      [] policy = "tenant_lru" -> PartitionedLRUCache_stats(part)
      [] policy = "hierarchical_lru" -> HierarchicalLRUCache_stats(hier)

\* capacity_bytes the cache was constructed with
StatsCapacity ==
    CASE policy = "arc" -> arc.capacity_bytes
      [] policy = "lfu" -> lfu.capacity_bytes
      [] policy = "mru" -> mru.capacity_bytes
      [] policy = "ttl" -> ttl.capacity_bytes
      [] policy = "twoq" -> twoq.capacity_bytes
      [] policy = "lruk" -> lruk.capacity_bytes
      [] policy = "clock" -> clock.capacity_bytes
      [] policy = "clockpro" -> clockpro.capacity_bytes
      [] policy = "priority_lru" -> prio.capacity_bytes
      [] policy = "lru" -> lru.capacity_bytes
      [] policy = "fifo" -> fifo.capacity_bytes
      [] policy = "tenant_lru" -> part.capacity_bytes
      [] policy = "hierarchical_lru" -> Max2(hier.l1.capacity_bytes, hier.l2.capacity_bytes)

RECURSIVE ConcatBuckets(_, _)
ConcatBuckets(buckets, q) ==
    IF q > MaxPriority THEN <<>> ELSE buckets[q] \o ConcatBuckets(buckets, q + 1)

RECURSIVE ConcatItems(_)
ConcatItems(cs) == IF cs = <<>> THEN <<>> ELSE Head(cs).items \o ConcatItems(Tail(cs))

\* the entries that hold a size for a key and are counted in used_bytes
ResidentEntries ==
    CASE policy = "arc" -> arc.t1 \o arc.t2
      [] policy = "lfu" -> lfu.items
      [] policy = "mru" -> mru.items
      [] policy = "ttl" -> ttl.items
      [] policy = "twoq" -> twoq.a1in \o twoq.am
      [] policy = "lruk" -> lruk.items
      [] policy = "clock" -> clock.items
      [] policy = "clockpro" -> clockpro.entries
      [] policy = "priority_lru" -> ConcatBuckets(prio.buckets, 0)
      [] policy = "lru" -> lru.items
      [] policy = "fifo" -> fifo.items
      [] policy = "tenant_lru" -> ConcatItems(part.caches)
      [] policy = "hierarchical_lru" -> hier.l1.items \o hier.l2.items

\* the object that serves a call with this tenant: the cache itself, or the
\* partition / layer a request is admitted into
ServingEntries(tenant_id) ==
    CASE policy = "tenant_lru" ->
            part.caches[PartitionedLRUCache_select_partition(
                            part, [NoMd EXCEPT !.tenant_id = tenant_id]) + 1].items
      [] OTHER -> ResidentEntries

ServingCapacity(tenant_id) ==
    CASE policy = "tenant_lru" ->
            part.caches[PartitionedLRUCache_select_partition(
                            part, [NoMd EXCEPT !.tenant_id = tenant_id]) + 1].capacity_bytes
      [] policy = "hierarchical_lru" -> hier.l2.capacity_bytes
      [] OTHER -> StatsCapacity

\* key is resident when the call made by this step is issued (for TTL: present
\* and not expired at the time now the call advances the clock to)
WasResident(key, tenant_id) ==
    /\ HasKey(ServingEntries(tenant_id), key)
    /\ policy = "ttl" => ~TTLCache_is_expired(ttl, key, ttl'.now)

\* used bytes over all layers
UsedBytes ==
    IF policy = "hierarchical_lru" THEN Stats.l1_used_bytes + Stats.l2_used_bytes
    ELSE Stats.used_bytes

\* what a refused get of key leaves behind: everything, except that TTL drops the
\* expired entry of key itself
ExpectedAfterRefusal(key) ==
    IF policy = "ttl" THEN Pop(ResidentEntries, key) ELSE ResidentEntries

GetStep == gets' = gets + 1
PutStep == puts' = puts + 1
Returned == pc = "idle"

SingleTier == policy /= "hierarchical_lru"
ReportsItems == policy \notin {"tenant_lru", "hierarchical_lru"}

\* ------------------------------------------- factory, engine and requests
\* a SimulatorConfig object: exactly the fields the dataclass declares
SimulatorConfig(tag, l1, l2) ==
    [seed |-> 0, num_requests |-> MaxRequests, num_sequences |-> MaxKey,
     sequence_length |-> 1, sequence_length_dist |-> "fixed",
     model_kv_bytes_per_token |-> model_kv_bytes_per_token,
     cache_capacity_bytes |-> capacity_bytes,
     l1_cache_capacity_bytes |-> l1, l2_cache_capacity_bytes |-> l2,
     policy |-> tag, reuse_model |-> "zipf", reuse_zipf_a |-> 1,
     workload_type |-> "trace", trace_path |-> None,
     block_size_tokens |-> block_size_tokens,
     trace_cache_capacity_fraction |-> None, time_model |-> "default"]

\* reading cfg.name raises AttributeError unless the object has the field
hasattr(cfg, name) == name \in DOMAIN cfg

Built(cls) == [error |-> "none", cls |-> cls]
Raised(error) == [error |-> error, cls |-> "none"]

\* build_cache: which class is constructed, or which error is raised.  The
\* arguments of a constructor are read from cfg before the constructor runs.
build_cache(cfg) ==
    IF cfg.policy = "lru" THEN Built("lru")
    ELSE IF cfg.policy = "lfu" THEN Built("lfu")
    ELSE IF cfg.policy = "fifo" THEN Built("fifo")
    ELSE IF cfg.policy = "mru" THEN Built("mru")
    ELSE IF cfg.policy = "ttl"
         THEN IF hasattr(cfg, "cache_ttl_ms") THEN Built("ttl") ELSE Raised("AttributeError")
    ELSE IF cfg.policy \in {"2q", "twoq"}
         THEN IF hasattr(cfg, "twoq_a1in_fraction") /\ hasattr(cfg, "twoq_a1out_fraction")
              THEN Built("twoq") ELSE Raised("AttributeError")
    ELSE IF cfg.policy = "arc"
         THEN IF hasattr(cfg, "arc_p_init_fraction") THEN Built("arc")
              ELSE Raised("AttributeError")
    ELSE IF cfg.policy \in {"lru_k", "lruk"}
         THEN IF hasattr(cfg, "lru_k") THEN Built("lruk") ELSE Raised("AttributeError")
    ELSE IF cfg.policy = "clock" THEN Built("clock")
    ELSE IF cfg.policy \in {"clock_pro", "clockpro"} THEN Built("clockpro")
    ELSE IF cfg.policy = "priority_lru" THEN Built("priority_lru")
    ELSE IF cfg.policy = "tenant_lru"
         THEN IF hasattr(cfg, "tenant_partition_count") THEN Built("tenant_lru")
              ELSE Raised("AttributeError")
    ELSE IF cfg.policy = "hierarchical_lru"
         THEN IF cfg.l1_cache_capacity_bytes = None \/ cfg.l2_cache_capacity_bytes = None
              THEN Raised("ValueError")
              ELSE Built("hierarchical_lru")
    ELSE Raised("ValueError")

\* the tags build_cache compares cfg.policy with, and one it does not know
RecognizedTags ==
    {"lru", "lfu", "fifo", "mru", "ttl", "2q", "twoq", "arc", "lru_k", "lruk", "clock",
     "clock_pro", "clockpro", "priority_lru", "tenant_lru", "hierarchical_lru"}
TagChoices == RecognizedTags \cup {"s3fifo"}
LayerChoices(cap) == {None, cap}

\* the cache object of class p
CacheOf(p) ==
    CASE p = "arc" -> arc
      [] p = "lfu" -> lfu
      [] p = "mru" -> mru
      [] p = "ttl" -> ttl
      [] p = "twoq" -> twoq
      [] p = "lruk" -> lruk
      [] p = "clock" -> clock
      [] p = "clockpro" -> clockpro
      [] p = "priority_lru" -> prio
      [] p = "lru" -> lru
      [] p = "fifo" -> fifo
      [] p = "tenant_lru" -> part
      [] p = "hierarchical_lru" -> hier

\* the entries a cache object of class p holds
Cache_entries(p, c) ==
    CASE p = "arc" -> c.t1 \o c.t2
      [] p = "twoq" -> c.a1in \o c.am
      [] p = "clockpro" -> c.entries
      [] p = "priority_lru" -> ConcatBuckets(c.buckets, 0)
      [] p = "tenant_lru" -> ConcatItems(c.caches)
      [] p = "hierarchical_lru" -> c.l1.items \o c.l2.items
      [] OTHER -> c.items

\* whether get and put of class p take the third argument, metadata:
\* LFUCache.get(self, key, size_bytes) and LFUCache.put do not
AcceptsMetadata(p) == p /= "lfu"

Lookup(hit) == IF hit THEN "l1" ELSE "miss"
StatusOf(ok) == IF ok THEN "ok" ELSE "looping"

\* what a get gave the engine: r is the result of the class's get
Looked(r) == [c |-> r.c, hit |-> r.hit, level |-> Lookup(r.hit), status |-> "ok"]
LookedIfReturned(r) ==
    [c |-> r.c, hit |-> r.hit, level |-> Lookup(r.hit), status |-> StatusOf(r.ok)]
LookedInTiers(r) == [c |-> r.c, hit |-> r.hit, level |-> r.level, status |-> "ok"]
Stored(c) == [c |-> c, status |-> "ok"]
StoredIfReturned(r) == [c |-> r.c, status |-> StatusOf(r.ok)]

\* cache.get(key, size_bytes, metadata) on an object c of class p
Cache_get(p, c, key, size_bytes, md) ==
    IF ~AcceptsMetadata(p)
    THEN [c |-> c, hit |-> FALSE, level |-> "none", status |-> "TypeError"]
    ELSE CASE p = "arc" -> Looked(ARCCache_get(c, key, size_bytes))
           [] p = "lfu" -> LookedIfReturned(LFUCache_get(c, key, size_bytes))
           [] p = "mru" -> Looked(MRUCache_get(c, key, size_bytes))
           [] p = "ttl" -> Looked(TTLCache_get(c, key, size_bytes, md))
           [] p = "twoq" -> Looked(TwoQCache_get(c, key, size_bytes))
           [] p = "lruk" -> Looked(LRUKCache_get(c, key, size_bytes))
           [] p = "clock" -> LookedIfReturned(ClockCache_get(c, key, size_bytes))
           [] p = "clockpro" -> LookedIfReturned(ClockProCache_get(c, key, size_bytes))
           [] p = "priority_lru" -> Looked(PriorityLRUCache_get(c, key, size_bytes, md))
           [] p = "lru" -> Looked(LRUCache_get(c, key, size_bytes))
           [] p = "fifo" -> Looked(FIFOCache_get(c, key, size_bytes))
           [] p = "tenant_lru" -> Looked(PartitionedLRUCache_get(c, key, size_bytes, md))
           [] p = "hierarchical_lru" ->
                LookedInTiers(HierarchicalLRUCache_get(c, key, size_bytes))

\* cache.put(key, size_bytes, metadata) on an object c of class p
Cache_put(p, c, key, size_bytes, md) ==
    IF ~AcceptsMetadata(p)
    THEN [c |-> c, status |-> "TypeError"]
    ELSE CASE p = "arc" -> Stored(ARCCache_put(c, key, size_bytes))
           [] p = "lfu" -> StoredIfReturned(LFUCache_put(c, key, size_bytes))
           [] p = "mru" -> Stored(MRUCache_put(c, key, size_bytes))
           [] p = "ttl" -> Stored(TTLCache_put(c, key, size_bytes, md))
           [] p = "twoq" -> Stored(TwoQCache_put(c, key, size_bytes))
           [] p = "lruk" -> Stored(LRUKCache_put(c, key, size_bytes))
           [] p = "clock" -> StoredIfReturned(ClockCache_put(c, key, size_bytes))
           [] p = "clockpro" -> StoredIfReturned(ClockProCache_put(c, key, size_bytes))
           [] p = "priority_lru" -> Stored(PriorityLRUCache_put(c, key, size_bytes, md))
           [] p = "lru" -> Stored(LRUCache_put(c, key, size_bytes))
           [] p = "fifo" -> Stored(LRUCache_put(c, key, size_bytes))
           [] p = "tenant_lru" -> Stored(PartitionedLRUCache_put(c, key, size_bytes, md))
           [] p = "hierarchical_lru" -> Stored(HierarchicalLRUCache_put(c, key, size_bytes))

\* one entry of the log of cache calls; resident: the key was held by the
\* cache when the call was made
CallEntry(op, p, c, key, size_bytes, hit, level) ==
    [op |-> op, key |-> key, size |-> size_bytes, hit |-> hit, level |-> level,
     resident |-> HasKey(Cache_entries(p, c), key)]

\* the local variables of handle_request before its loop
StartOfRequest(c) ==
    [c |-> c, calls |-> <<>>, status |-> "ok", prefix_active |-> TRUE, prefix_hits |-> 0,
     prefix_hit_tokens |-> 0, l1_bytes |-> 0, l2_bytes |-> 0, miss_bytes |-> 0,
     read_bytes |-> 0, write_bytes |-> 0]

\* line 50: the first miss ends the prefix
break_prefix_kept(st) == st

break_prefix(st) == [st EXCEPT !.prefix_active = FALSE]

\* lines 65-68: the level recorded for the request
request_level_always_l1(full_hit, l2_bytes) == IF full_hit THEN "l1" ELSE "miss"

request_level(full_hit, l2_bytes) ==
    IF full_hit THEN (IF l2_bytes > 0 THEN "l2" ELSE "l1") ELSE "miss"

\* line 38
kv_bytes_of(tokens) == tokens * model_kv_bytes_per_token

\* lines 40-41: the locals once cache.get has given result
after_get(p, st, result, block_id, kv_bytes) ==
    [st EXCEPT !.c = result.c,
               !.status = result.status,
               !.calls = Append(@, CallEntry("get", p, st.c, block_id, kv_bytes,
                                             result.hit, result.level))]

\* lines 42-48: the counters of a block that hit
after_hit(st, result, tokens, kv_bytes) ==
    [st EXCEPT !.prefix_hits = @ + 1,
               !.prefix_hit_tokens = @ + tokens,
               !.read_bytes = @ + kv_bytes,
               !.l2_bytes = IF result.level = "l2" THEN @ + kv_bytes ELSE @,
               !.l1_bytes = IF result.level = "l2" THEN @ ELSE @ + kv_bytes]

\* lines 52-54: the locals once cache.put has given stored
after_put(p, st, stored, block_id, kv_bytes) ==
    [st EXCEPT !.miss_bytes = @ + kv_bytes,
               !.write_bytes = @ + kv_bytes,
               !.c = stored.c,
               !.status = stored.status,
               !.calls = Append(@, CallEntry("put", p, st.c, block_id, kv_bytes,
                                             FALSE, "none"))]

\* the walk over zip(req.block_hashes, block_tokens), from block i on; a call
\* that raises or never returns ends the walk
RECURSIVE handle_request_loop(_, _, _, _, _, _)
RECURSIVE handle_request_looked(_, _, _, _, _, _, _)
RECURSIVE handle_request_missed(_, _, _, _, _, _)
handle_request_loop(p, st, block_hashes, block_tokens, md, i) ==
    IF i > Len(block_hashes) \/ i > Len(block_tokens) \/ st.status /= "ok" THEN st
    ELSE IF st.prefix_active
    THEN handle_request_looked(p, st,
            Cache_get(p, st.c, block_hashes[i], kv_bytes_of(block_tokens[i]), md),
            block_hashes, block_tokens, md, i)
    ELSE handle_request_missed(p, st, block_hashes, block_tokens, md, i)

\* lines 41-50, with the result of the lookup of block i
handle_request_looked(p, st, result, block_hashes, block_tokens, md, i) ==
    IF result.status /= "ok"
    THEN after_get(p, st, result, block_hashes[i], kv_bytes_of(block_tokens[i]))
    ELSE IF result.hit
    THEN handle_request_loop(p,
            after_hit(after_get(p, st, result, block_hashes[i],
                                kv_bytes_of(block_tokens[i])),
                      result, block_tokens[i], kv_bytes_of(block_tokens[i])),
            block_hashes, block_tokens, md, i + 1)
    ELSE handle_request_missed(p,
            break_prefix(after_get(p, st, result, block_hashes[i],
                                   kv_bytes_of(block_tokens[i]))),
            block_hashes, block_tokens, md, i)

\* lines 52-54, for block i
handle_request_missed(p, st, block_hashes, block_tokens, md, i) ==
    handle_request_loop(p,
       after_put(p, st,
                 Cache_put(p, st.c, block_hashes[i], kv_bytes_of(block_tokens[i]), md),
                 block_hashes[i], kv_bytes_of(block_tokens[i])),
       block_hashes, block_tokens, md, i + 1)

\* lines 56-79: the arguments of metrics.record_request, from the locals st
\* the loop left
block_request_record(req, block_tokens, st) ==
    [c |-> st.c, calls |-> st.calls, status |-> st.status,
     block_tokens |-> block_tokens,
     hit |-> (st.prefix_hits = Len(req.block_hashes) /\ Len(req.block_hashes) > 0),
     level |-> request_level(st.prefix_hits = Len(req.block_hashes)
                             /\ Len(req.block_hashes) > 0, st.l2_bytes),
     kv_bytes_total |-> st.l1_bytes + st.l2_bytes + st.miss_bytes,
     read_bytes |-> st.read_bytes, write_bytes |-> st.write_bytes,
     block_hits |-> st.prefix_hits, block_total |-> Len(req.block_hashes),
     hit_tokens |-> st.prefix_hit_tokens,
     l1_bytes |-> st.l1_bytes, l2_bytes |-> st.l2_bytes, miss_bytes |-> st.miss_bytes]

\* lines 84-105: the same for a request without block hashes
single_request_record(p, c, req, kv_bytes, cache_result) ==
    [c |-> cache_result.c,
     calls |-> <<CallEntry("get", p, c, req.sequence_id, kv_bytes, cache_result.hit,
                           cache_result.level)>>,
     status |-> cache_result.status,
     block_tokens |-> <<>>,
     hit |-> cache_result.hit, level |-> cache_result.level,
     kv_bytes_total |-> kv_bytes,
     read_bytes |-> IF cache_result.hit THEN kv_bytes ELSE 0,
     write_bytes |-> IF cache_result.hit THEN 0 ELSE kv_bytes,
     block_hits |-> 0, block_total |-> 0,
     hit_tokens |-> IF cache_result.hit THEN req.sequence_length ELSE 0,
     l1_bytes |-> IF cache_result.hit /\ cache_result.level /= "l2" THEN kv_bytes ELSE 0,
     l2_bytes |-> IF cache_result.hit /\ cache_result.level = "l2" THEN kv_bytes ELSE 0,
     miss_bytes |-> IF cache_result.hit THEN 0 ELSE kv_bytes]

\* lines 19-24
metadata_of(req) ==
    [timestamp_ms |-> req.timestamp_ms, priority |-> req.priority,
     pinned |-> req.pinned, tenant_id |-> req.tenant_id]

\* line 26: req.input_length or req.sequence_length
total_tokens_of(req) ==
    IF req.input_length = None \/ req.input_length = 0
    THEN req.sequence_length ELSE req.input_length

\* lines 27-80, given block_tokens
block_request(p, c, req, block_tokens) ==
    block_request_record(req, block_tokens,
        handle_request_loop(p, StartOfRequest(c), req.block_hashes, block_tokens,
                            metadata_of(req), 1))

\* handle_request on cache object c of class p: the cache afterwards, the
\* calls made, and the arguments of metrics.record_request
handle_request(p, c, req) ==
    IF req.block_hashes /= <<>>
    THEN block_request(p, c, req,
            _split_tokens(total_tokens_of(req), Len(req.block_hashes), block_size_tokens))
    ELSE single_request_record(p, c, req, kv_bytes_of(req.sequence_length),
            Cache_get(p, c, req.sequence_id, kv_bytes_of(req.sequence_length),
                      metadata_of(req)))

\* the requests of a workload: trace requests that carry block hashes, and
\* synthetic requests that carry none and are looked up by sequence_id
BlockLists == UNION {[1..n -> KeyChoices] : n \in 1..MaxBlocks}
RequestChoices ==
    {[NoRequest EXCEPT !.block_hashes = b, !.input_length = il, !.sequence_length = 1,
                       !.sequence_id = 1, !.pinned = pinned] :
        b \in BlockLists, il \in {None, MaxInputLength}, pinned \in BOOLEAN}
    \cup
    {[NoRequest EXCEPT !.sequence_id = k, !.sequence_length = sl, !.pinned = pinned] :
        k \in KeyChoices, sl \in 1..MaxSequenceLength, pinned \in BOOLEAN}

RECURSIVE CountOp(_, _)
CountOp(calls, op) ==
    IF calls = <<>> THEN 0
    ELSE (IF Head(calls).op = op THEN 1 ELSE 0) + CountOp(Tail(calls), op)

SimInit ==
    /\ Constructed
    /\ policy = "none"
    /\ build = NoBuild
    /\ ledger = NoLedger
    /\ split = NoSplit

\* main: cache = build_cache(cfg)
BuildCache(tag, l1, l2) ==
    /\ build.status = "none"
    /\ tag = "hierarchical_lru" \/ (l1 = None /\ l2 = None)
    /\ LET r == build_cache(SimulatorConfig(tag, l1, l2)) IN
       /\ build' = [status |-> IF r.error = "none" THEN "built" ELSE "raised",
                    error |-> r.error, tag |-> tag, l1 |-> l1, l2 |-> l2]
       /\ policy' = r.cls
    /\ UNCHANGED <<arc, lfu, mru, ttl, twoq, lruk, clock, clockpro, prio, part, hier,
                   lru, fifo, last, gets, puts, nkeys, positive, pc, ledger, split>>

\* main: sim.handle_request(req), for the next request of the workload
HandleRequest ==
    /\ build.status = "built"
    /\ ledger.status \in {"none", "recorded"}
    /\ ledger.n < MaxRequests
    /\ \E req \in RequestChoices :
       \E r \in {handle_request(policy, CacheOf(policy), req)} :
       LET final == r.calls[Len(r.calls)]
       IN /\ arc' = IF policy = "arc" THEN r.c ELSE arc
          /\ lfu' = IF policy = "lfu" THEN r.c ELSE lfu
          /\ mru' = IF policy = "mru" THEN r.c ELSE mru
          /\ ttl' = IF policy = "ttl" THEN r.c ELSE ttl
          /\ twoq' = IF policy = "twoq" THEN r.c ELSE twoq
          /\ lruk' = IF policy = "lruk" THEN r.c ELSE lruk
          /\ clock' = IF policy = "clock" THEN r.c ELSE clock
          /\ clockpro' = IF policy = "clockpro" THEN r.c ELSE clockpro
          /\ prio' = IF policy = "priority_lru" THEN r.c ELSE prio
          /\ part' = IF policy = "tenant_lru" THEN r.c ELSE part
          /\ hier' = IF policy = "hierarchical_lru" THEN r.c ELSE hier
          /\ lru' = IF policy = "lru" THEN r.c ELSE lru
          /\ fifo' = IF policy = "fifo" THEN r.c ELSE fifo
          /\ ledger' = [n |-> ledger.n + 1,
                        status |-> IF r.status = "ok" THEN "recorded" ELSE r.status,
                        req |-> req, calls |-> r.calls, block_tokens |-> r.block_tokens,
                        hit |-> r.hit, level |-> r.level,
                        kv_bytes_total |-> r.kv_bytes_total,
                        read_bytes |-> r.read_bytes, write_bytes |-> r.write_bytes,
                        block_hits |-> r.block_hits, block_total |-> r.block_total,
                        hit_tokens |-> r.hit_tokens, l1_bytes |-> r.l1_bytes,
                        l2_bytes |-> r.l2_bytes, miss_bytes |-> r.miss_bytes,
                        metrics |-> IF r.status = "ok"
                                    THEN MetricsCollector_record_request(
                                             ledger.metrics, req, r.hit, r.kv_bytes_total,
                                             r.read_bytes, r.write_bytes, r.block_hits,
                                             r.block_total)
                                    ELSE ledger.metrics]
          /\ last' = [op |-> final.op, key |-> final.key, size |-> final.size,
                      tenant_id |-> req.tenant_id, timestamp_ms |-> req.timestamp_ms,
                      hit |-> final.hit, level |-> final.level]
          /\ gets' = gets + CountOp(r.calls, "get")
          /\ puts' = puts + CountOp(r.calls, "put")
          /\ nkeys' = Max2(nkeys, final.key)
          /\ positive' = (positive /\ \A i \in 1..Len(r.calls) : r.calls[i].size > 0)
          /\ pc' = IF r.status = "looping" THEN "looping" ELSE "idle"
    /\ UNCHANGED <<policy, build, split>>

SimNext ==
    \/ \E tag \in TagChoices, l1 \in LayerChoices(l1_capacity_bytes),
          l2 \in LayerChoices(l2_capacity_bytes) : BuildCache(tag, l1, l2)
    \/ HandleRequest

SimSpec == SimInit /\ [][SimNext]_vars

\* ------------------------------------------------------------------ claims

\* C1: ARC: whenever a get or put returns, T1_bytes + T2_bytes (stats().used_bytes)
\* is at most capacity_bytes, for arbitrary non-negative sizes.
C1_ARCUsedWithinCapacity ==
    (policy = "arc" /\ Returned) => ARCCache_stats(arc).used_bytes <= arc.capacity_bytes

\* C2: LFU: whenever a get or put returns, used_bytes is at most capacity_bytes,
\* also when put replaces a resident key with a larger size.
C2_LFUUsedWithinCapacity ==
    (policy = "lfu" /\ Returned) => LFUCache_stats(lfu).used_bytes <= lfu.capacity_bytes

\* C3: MRU, TTL, 2Q, LRU-K, CLOCK, CLOCK-Pro and Priority-LRU: whenever a get or
\* put returns, stats().used_bytes is at most capacity_bytes.
C3_Policies == {"mru", "ttl", "twoq", "lruk", "clock", "clockpro", "priority_lru"}
C3_UsedWithinCapacity ==
    (policy \in C3_Policies /\ Returned) => Stats.used_bytes <= StatsCapacity

\* C3 witness: a CLOCK-Pro cache that is exactly full after an admission that had
\* to evict (more keys were named than are resident).
C3_Witness ==
    /\ policy = "clockpro"
    /\ Returned
    /\ last.op = "get" /\ ~last.hit /\ HasKey(clockpro.entries, last.key)
    /\ clockpro.ghost /= <<>>
    /\ clockpro.used_bytes = clockpro.capacity_bytes

\* C4: a get of a key that is not resident, with size_bytes above the capacity,
\* returns a miss, leaves the key not resident and evicts nothing: the resident
\* entries and used_bytes are what they were before the call (an expired TTL entry
\* of the key itself counts as not resident and may be removed).
C4_OversizedGetEvictsNothing ==
    [][(GetStep /\ Returned' /\ last'.size > StatsCapacity
            /\ ~WasResident(last'.key, last'.tenant_id))
        => /\ ~last'.hit
           /\ ~HasKey(ResidentEntries', last'.key)
           /\ ResidentEntries' = ExpectedAfterRefusal(last'.key)
           /\ UsedBytes' = UsedBytes - (SumSizes(ResidentEntries)
                                          - SumSizes(ExpectedAfterRefusal(last'.key)))]_vars

\* C5: get(k) returns hit = true if and only if k is resident when the call is
\* made (its size is stored in the entry map and counted in used_bytes; for TTL,
\* not expired).
C5_HitIffResident ==
    [][GetStep => (last'.hit <=> WasResident(last'.key, last'.tenant_id))]_vars

\* C6: put(k, s) followed immediately by get(k, s) (same metadata, and for TTL
\* before the entry expires) returns a hit, provided s is at most the capacity of
\* the cache (of the partition or of L2 where the request is admitted).
C6_PutThenGetHits ==
    [][(GetStep /\ last.op = "put" /\ last'.key = last.key /\ last'.size = last.size
            /\ last'.tenant_id = last.tenant_id
            /\ last.size <= ServingCapacity(last.tenant_id)
            /\ (policy = "ttl" => ~TTLCache_is_expired(ttl, last.key, ttl'.now)))
        => last'.hit]_vars

\* C7: for every policy except TTL with expiry enabled, a get(k) that hits is
\* followed by a hit when get(k) is issued again with no call in between.
C7_HitThenHit ==
    [][(GetStep /\ last.op = "get" /\ last.hit /\ last'.key = last.key
            /\ last'.tenant_id = last.tenant_id
            /\ ~(policy = "ttl" /\ ttl.ttl_ms > 0))
        => last'.hit]_vars

\* C7 witness: one key only, no put: a miss followed by two hits in a row (2Q, where
\* the first hit moved the key from A1in to Am).
C7_Witness ==
    /\ policy = "twoq"
    /\ nkeys = 1 /\ puts = 0
    /\ twoq.misses = 1 /\ twoq.hits = 2
    /\ HasKey(twoq.am, 1)

\* C8: single-tier policies: hits + misses is the number of get calls made; a get
\* adds exactly one to exactly one of the two counters, a put changes neither,
\* and neither counter ever decreases.
C8_HitMissAccounting ==
    [][SingleTier =>
        /\ Stats'.hits + Stats'.misses = gets'
        /\ GetStep => \/ Stats'.hits = Stats.hits + 1 /\ Stats'.misses = Stats.misses
                      \/ Stats'.hits = Stats.hits /\ Stats'.misses = Stats.misses + 1
        /\ PutStep => Stats'.hits = Stats.hits /\ Stats'.misses = Stats.misses
        /\ Stats'.hits >= Stats.hits
        /\ Stats'.misses >= Stats.misses]_vars

\* C8 witness: a 2Q cache after gets that hit, gets that missed (one on a ghost of
\* A1out) and a put.
C8_Witness ==
    /\ policy = "twoq"
    /\ twoq.hits >= 1 /\ twoq.misses >= 2 /\ puts >= 1
    /\ last.op = "get" /\ ~last.hit /\ HasKey(twoq.am, last.key)

\* C9: single-tier policies: whenever a call returns, used_bytes is the sum of the
\* recorded sizes of the resident entries (a put on a resident key subtracts the
\* old size exactly once).
C9_UsedIsSumOfSizes ==
    (SingleTier /\ Returned) => Stats.used_bytes = SumSizes(ResidentEntries)

\* C9 witness: LFU after two puts of the same key and nothing else, the second of
\* which replaced the resident entry (frequency 2) and left size 1.
C9_Witness ==
    /\ policy = "lfu"
    /\ Returned
    /\ gets = 0 /\ puts = 2 /\ last.op = "put" /\ last.size = 1
    /\ lfu.freq[1] = 2
    /\ lfu.used_bytes = 1

\* C10: policies that report items, sizes strictly positive: items = 0 exactly
\* when used_bytes = 0, and items <= used_bytes.
C10_ItemsVersusBytes ==
    (ReportsItems /\ positive /\ Returned)
        => /\ (Stats.items = 0 <=> Stats.used_bytes = 0)
           /\ Stats.items <= Stats.used_bytes

\* C11: Hierarchical LRU: every key resident in L1 is also resident in L2.
C11_L1SubsetOfL2 ==
    policy = "hierarchical_lru" => KeySet(hier.l1.items) \subseteq KeySet(hier.l2.items)

\* the three cases of HierarchicalLRUCache.get on the state before the call
InL1(key) == HasKey(hier.l1.items, key)
InL2(key) == HasKey(hier.l2.items, key)
HierStep == policy = "hierarchical_lru"

\* C12: Hierarchical LRU: a get of a key in L1 is a hit of level l1 that changes
\* only the recency of L1; of a key in L2 only, a hit of level l2 that keeps the
\* key in L2 and admits a copy into L1; of a key in neither, a miss that admits
\* the key into L2 and leaves L1 unchanged; a put changes L2 only. Admission is the
\* one of the cache contract: made when size_bytes is at most the capacity of the
\* tier, refused without any other change to its entries when it is larger.
C12_HierarchicalGetPut ==
    [][HierStep =>
        /\ (GetStep /\ InL1(last'.key)) =>
              /\ last'.hit /\ last'.level = "l1"
              /\ hier'.l2 = hier.l2
              /\ hier'.l1.items = MoveToEnd(hier.l1.items, last'.key)
              /\ hier'.l1.used_bytes = hier.l1.used_bytes
        /\ (GetStep /\ ~InL1(last'.key) /\ InL2(last'.key)) =>
              /\ last'.hit /\ last'.level = "l2"
              /\ hier'.l2.items = MoveToEnd(hier.l2.items, last'.key)
              /\ hier'.l2.used_bytes = hier.l2.used_bytes
              /\ IF last'.size <= hier.l1.capacity_bytes
                 THEN HasKey(hier'.l1.items, last'.key)
                 ELSE hier'.l1.items = hier.l1.items
        /\ (GetStep /\ ~InL1(last'.key) /\ ~InL2(last'.key)) =>
              /\ ~last'.hit /\ last'.level = "miss"
              /\ IF last'.size <= hier.l2.capacity_bytes
                 THEN HasKey(hier'.l2.items, last'.key)
                 ELSE hier'.l2.items = hier.l2.items
              /\ hier'.l1 = hier.l1
        /\ PutStep =>
              /\ hier'.l1 = hier.l1
              /\ hier'.l1_hits = hier.l1_hits /\ hier'.l2_hits = hier.l2_hits
              /\ hier'.misses = hier.misses]_vars

\* C12 witness: three gets of one key on an empty cache, nothing else: a miss,
\* a hit in L2, a hit in L1.
C12_Witness ==
    /\ policy = "hierarchical_lru"
    /\ puts = 0 /\ gets = 3 /\ nkeys = 1
    /\ hier.misses = 1 /\ hier.l2_hits = 1 /\ hier.l1_hits = 1
    /\ last.hit /\ last.level = "l1"
    /\ InL1(1) /\ InL2(1)

TTLStep == policy = "ttl"

\* C19: TTL with ttl_ms = 0 behaves as FIFO: a get that hits does not move the
\* key in the eviction order (the order of the entries stays the admission order,
\* so that the victim is always the oldest-admitted entry).
C19_TTLZeroIsFIFO ==
    [][(TTLStep /\ ttl.ttl_ms = 0 /\ GetStep /\ last'.hit) => ttl'.items = ttl.items]_vars

\* the time the call made by this step runs at, from its metadata
NowOfCall ==
    IF last'.timestamp_ms /= None /\ last'.timestamp_ms > 0
    THEN last'.timestamp_ms ELSE ttl.now + 1

\* C20: TTL with ttl_ms > 0: now is the call's timestamp_ms when present and
\* positive, else now + 1; get(k) hits exactly when k is resident and now is
\* below k's expiry; a hit changes no expiry; a miss removes an expired k and
\* admits k (under the admission rule: when size_bytes is at most the capacity)
\* with expiry now + ttl_ms, and so does a put; the expiry of every other entry
\* that stays resident is the one it got at its admission.
C20_TTLExpiry ==
    [][(TTLStep /\ ttl.ttl_ms > 0 /\ (GetStep \/ PutStep)) =>
        /\ ttl'.now = NowOfCall
        /\ GetStep => (last'.hit <=> (HasKey(ttl.items, last'.key)
                                        /\ NowOfCall < ttl.expiry[last'.key]))
        /\ (GetStep /\ last'.hit) =>
              /\ ttl'.expiry = ttl.expiry
              /\ KeySet(ttl'.items) = KeySet(ttl.items)
        /\ (PutStep \/ ~last'.hit) =>
              IF last'.size <= ttl.capacity_bytes
              THEN /\ HasKey(ttl'.items, last'.key)
                   /\ ttl'.expiry[last'.key] = NowOfCall + ttl.ttl_ms
              ELSE /\ ~HasKey(ttl'.items, last'.key)
                   /\ ttl'.expiry[last'.key] = None
        /\ \A j \in KeySet(ttl'.items) \ {last'.key} :
              /\ HasKey(ttl.items, j)
              /\ ttl'.expiry[j] = ttl.expiry[j]
              /\ ttl'.expiry[j] /= None]_vars

\* C20 witness: three gets of one key and nothing else, at now = 1, 2 and 3 with
\* ttl_ms = 2: miss (expiry 3), hit, miss on the expired entry, which is
\* admitted again with expiry 5.
C20_Witness ==
    /\ policy = "ttl" /\ ttl.ttl_ms = 2
    /\ puts = 0 /\ gets = 3 /\ nkeys = 1
    /\ ttl.hits = 1 /\ ttl.misses = 2
    /\ last.op = "get" /\ ~last.hit
    /\ ttl.now = 3
    /\ HasKey(ttl.items, 1) /\ ttl.expiry[1] = 5

\* the keys every stats() map has to hold
RequiredStatsKeys == {"hits", "misses", "hit_rate", "used_bytes", "capacity_bytes", "items"}

\* C18: for every policy the map returned by stats() holds at least the keys
\* hits, misses, hit_rate, used_bytes, capacity_bytes and items, and hit_rate is
\* hits / (hits + misses) when that denominator is positive and 0 otherwise.
C18_StatsKeysAndHitRate ==
    /\ RequiredStatsKeys \subseteq DOMAIN Stats
    /\ IF Stats.hits + Stats.misses > 0
       THEN Stats.hit_rate.num * (Stats.hits + Stats.misses) = Stats.hits * Stats.hit_rate.den
       ELSE Stats.hit_rate.num = 0

\* C15 -- the block-split rule.  split(T, N, B) has N elements when N > 0
\* and none when N <= 0; when there is at least one block (N > 0) and T > 0
\* the elements sum to at least T and each is >= 1; when T <= 0 every
\* element is B, so the sum is B times the number of elements: N*B for
\* N >= 0, and 0 for N < 0.
C15_SplitRule ==
    split.done =>
       LET T == split.total_tokens
           N == split.num_blocks
           B == split.block_size
           s == split.sizes
       IN /\ Len(s) = (IF N > 0 THEN N ELSE 0)
          /\ (T > 0 /\ N > 0) => (SumSeq(s) >= T /\ \A i \in 1..Len(s) : s[i] >= 1)
          /\ (T > 0 /\ N <= 0) => SumSeq(s) = 0
          /\ T <= 0 => /\ \A i \in 1..Len(s) : s[i] = B
                       /\ SumSeq(s) = Max2(N, 0) * B

\* C15 as the sentence is worded, for every T, N and B >= 1: the sum is at
\* least T whenever T > 0, and is N*B whenever T <= 0.
C15_SplitRuleAsStated ==
    split.done =>
       LET T == split.total_tokens
           N == split.num_blocks
           B == split.block_size
           s == split.sizes
       IN /\ Len(s) = (IF N > 0 THEN N ELSE 0)
          /\ T > 0 => (SumSeq(s) >= T /\ \A i \in 1..Len(s) : s[i] >= 1)
          /\ T <= 0 => /\ \A i \in 1..Len(s) : s[i] = B
                       /\ SumSeq(s) = N * B

\* 4 tokens over 3 blocks of 1 token: the last block takes what is left
C15_Witness ==
    /\ split.done
    /\ split.total_tokens = 4 /\ split.num_blocks = 3 /\ split.block_size = 1
    /\ split.sizes = <<1, 1, 2>>

\* the request of the ledger carried block hashes and was recorded
BlockRequestRecorded == ledger.status = "recorded" /\ ledger.req.block_hashes /= <<>>

\* number of lookups of the latest request that hit
HitsOf(calls) == Cardinality({i \in 1..Len(calls) : calls[i].op = "get" /\ calls[i].hit})

\* kv_bytes of blocks a..b of the latest request
RECURSIVE KvBytes(_, _)
KvBytes(a, b) ==
    IF a > b THEN 0
    ELSE ledger.block_tokens[a] * model_kv_bytes_per_token + KvBytes(a + 1, b)

\* C13 -- prefix lock.  For a recorded request with N blocks of which the
\* first h hit: the calls are get(b1) .. get(bh), all hits; then, if h < N,
\* get(b(h+1)), a miss, and put(b(h+1)); then put(b(h+2)) .. put(bN) and
\* nothing else.  So min(h+1, N) gets and N-h puts are issued, and no block
\* after the first miss is looked up.
C13_PrefixLock ==
    BlockRequestRecorded =>
       LET b == ledger.req.block_hashes
           calls == ledger.calls
           N == Len(b)
           h == HitsOf(calls)
           g == Min2(h + 1, N)
       IN /\ h <= N
          /\ Len(calls) = g + (N - h)
          /\ CountOp(calls, "get") = g
          /\ CountOp(calls, "put") = N - h
          /\ \A i \in 1..g : /\ calls[i].op = "get"
                             /\ calls[i].key = b[i]
                             /\ calls[i].hit = (i <= h)
          /\ \A j \in (h + 1)..N : /\ calls[g + (j - h)].op = "put"
                                   /\ calls[g + (j - h)].key = b[j]

\* a block after the one that broke the prefix was held by the cache, and was
\* deposited without a lookup
C13_Witness ==
    /\ BlockRequestRecorded
    /\ Len(ledger.req.block_hashes) = 3
    /\ HitsOf(ledger.calls) = 1
    /\ Len(ledger.calls) = 4
    /\ ledger.calls[4].op = "put" /\ ledger.calls[4].resident
    /\ ledger.calls[4].key /= ledger.calls[3].key

\* C14 -- the ledger of a recorded request with N blocks of which the first
\* h hit: block_hits = h, block_total = N, read_bytes is the kv_bytes of the
\* first h blocks, write_bytes and miss_bytes are the kv_bytes of the other
\* N-h blocks, the kv_bytes requested are read_bytes + write_bytes, the
\* request is a hit exactly when h = N, its level is then l2 if a block was
\* served from L2 and l1 otherwise, and its level is miss when h < N.
C14_Ledger ==
    BlockRequestRecorded =>
       LET calls == ledger.calls
           N == Len(ledger.req.block_hashes)
           h == HitsOf(calls)
           from_l2 == \E i \in 1..Len(calls) :
                         calls[i].op = "get" /\ calls[i].hit /\ calls[i].level = "l2"
       IN /\ Len(ledger.block_tokens) = N
          /\ ledger.block_hits = h
          /\ ledger.block_total = N
          /\ ledger.read_bytes = KvBytes(1, h)
          /\ ledger.write_bytes = KvBytes(h + 1, N)
          /\ ledger.miss_bytes = ledger.write_bytes
          /\ ledger.kv_bytes_total = ledger.read_bytes + ledger.write_bytes
          /\ ledger.hit = (h = N)
          /\ ledger.level = (IF h < N THEN "miss" ELSE IF from_l2 THEN "l2" ELSE "l1")

\* a request of two blocks of 1 and 2 bytes, the first served from L2 and the
\* second from L1
C14_Witness ==
    /\ BlockRequestRecorded
    /\ policy = "hierarchical_lru"
    /\ ledger.block_tokens = <<1, 2>>
    /\ ledger.calls[1].level = "l2" /\ ledger.calls[2].level = "l1"
    /\ ledger.hit /\ ledger.level = "l2"
    /\ ledger.block_hits = 2 /\ ledger.block_total = 2
    /\ ledger.read_bytes = 3 /\ ledger.write_bytes = 0 /\ ledger.kv_bytes_total = 3

\* C16 -- the factory returns a cache for every recognized tag
\* (hierarchical_lru: when both layer capacities are set) and raises an
\* error for every other tag and for hierarchical_lru with a layer capacity
\* absent.
C16_FactoryBuildsEveryTag ==
    build.status /= "none" =>
       LET buildable == /\ build.tag \in RecognizedTags
                        /\ build.tag = "hierarchical_lru" =>
                              (build.l1 /= None /\ build.l2 /= None)
       IN build.status = (IF buildable THEN "built" ELSE "raised")

\* C17 -- no call cache.get(block, kv_bytes, metadata) or
\* cache.put(block, kv_bytes, metadata) of the engine raises, whichever
\* policy the factory built.
C17_EngineCallsDoNotRaise ==
    build.status = "built" => ledger.status /= "TypeError"

\* C21 -- every get and every put returns: no call is left in an eviction
\* loop whose iterations remove nothing while its condition stays true.
C21_EveryCallReturns ==
    pc /= "looping"

\* the smallest frequency of a resident key
MinResidentFreq(c) ==
    CHOOSE f \in FreqChoices :
       /\ \E i \in 1..Len(c.items) : c.freq[c.items[i].k] = f
       /\ \A i \in 1..Len(c.items) : c.freq[c.items[i].k] >= f

\* the states of the cache in which the while loop of _insert calls _evict,
\* in order (the last one is repeated for ever when _evict changes nothing)
RECURSIVE LFUCache_evict_calls(_, _)
LFUCache_evict_calls(c, size_bytes) ==
    IF c.used_bytes + size_bytes > c.capacity_bytes /\ c.items /= <<>>
    THEN LET d == LFUCache_evict(c) IN
         <<c>> \o (IF d = c THEN <<>> ELSE LFUCache_evict_calls(d, size_bytes))
    ELSE <<>>

\* the step is a call that runs _insert: a get or put of a key that is not
\* resident, of a size the cache accepts
LFUInsertStep ==
    /\ policy = "lfu"
    /\ GetStep \/ PutStep
    /\ ~HasKey(lfu.items, last'.key)
    /\ last'.size <= lfu.capacity_bytes

\* C22 -- LFU eviction.  Whenever _insert performs an eviction, min_freq is
\* the smallest frequency of a resident key, and the eviction removes the
\* resident key that is the oldest of the bucket of that frequency.
C22_LFUEvictsMinimalFrequency ==
    [][LFUInsertStep =>
         LET calls == LFUCache_evict_calls(lfu, last'.size) IN
         \A i \in 1..Len(calls) :
            LET e == calls[i]
                f == MinResidentFreq(e)
                after == LFUCache_evict(e)
            IN /\ e.min_freq = f
               /\ e.freq_buckets[f] /= <<>>
               /\ HasKey(e.items, Head(e.freq_buckets[f]))
               /\ KeySet(after.items) = KeySet(e.items) \ {Head(e.freq_buckets[f])}]_vars

\* a get on the 2Q cache of a size the cache accepts
TwoQGetStep ==
    /\ policy = "twoq"
    /\ GetStep
    /\ last'.size <= twoq.capacity_bytes

\* C23 -- 2Q placement, for sizes <= capacity_bytes.  After a get that hits a
\* key of A1in the key is in Am; after a get miss on a key recorded in A1out
\* the key is in Am and no longer in A1out; after any other get miss the key
\* is in A1in.  In each case the key is resident when the call returns.
C23_TwoQPlacement ==
    [][TwoQGetStep =>
         LET key == last'.key IN
         /\ HasKey(twoq.a1in, key) => (last'.hit /\ HasKey(twoq'.am, key))
         /\ (~HasKey(twoq.am, key) /\ ~HasKey(twoq.a1in, key) /\ HasKey(twoq.a1out, key))
               => (~last'.hit /\ HasKey(twoq'.am, key) /\ ~HasKey(twoq'.a1out, key))
         /\ (~HasKey(twoq.am, key) /\ ~HasKey(twoq.a1in, key) /\ ~HasKey(twoq.a1out, key))
               => (~last'.hit /\ HasKey(twoq'.a1in, key))]_vars

\* C24 -- ghost byte bounds.  In 2Q the recorded bytes of A1out are at most
\* a1out_fraction (one half) of capacity_bytes; in ARC the recorded bytes of
\* B1 and of B2 are each at most capacity_bytes; the used_bytes either policy
\* reports is the bytes of its resident lists only, ghost bytes not included.
C24_GhostBytesBounded ==
    /\ SumSizes(twoq.a1out) <= twoq.a1out_capacity
    /\ 2 * twoq.a1out_capacity <= twoq.capacity_bytes
    /\ SumSizes(arc.b1) <= arc.capacity_bytes
    /\ SumSizes(arc.b2) <= arc.capacity_bytes
    /\ TwoQCache_stats(twoq).used_bytes = SumSizes(twoq.a1in) + SumSizes(twoq.am)
    /\ ARCCache_stats(arc).used_bytes = SumSizes(arc.t1) + SumSizes(arc.t2)

\* a 2Q cache whose ghost list is full while resident bytes are held
C24_Witness ==
    /\ policy = "twoq"
    /\ SumSizes(twoq.a1out) = twoq.a1out_capacity
    /\ twoq.a1out_capacity > 0
    /\ TwoQCache_stats(twoq).used_bytes = twoq.capacity_bytes

Disjoint(a, b) == KeySet(a) \cap KeySet(b) = {}

\* C25 -- list disjointness.  In 2Q the key sets of A1in, Am and A1out are
\* pairwise disjoint; in ARC the key sets of T1, T2, B1 and B2 are pairwise
\* disjoint, after every get and put.
C25_ListsDisjoint ==
    /\ Disjoint(twoq.a1in, twoq.am)
    /\ Disjoint(twoq.a1in, twoq.a1out)
    /\ Disjoint(twoq.am, twoq.a1out)
    /\ Disjoint(arc.t1, arc.t2)
    /\ Disjoint(arc.t1, arc.b1)
    /\ Disjoint(arc.t1, arc.b2)
    /\ Disjoint(arc.t2, arc.b1)
    /\ Disjoint(arc.t2, arc.b2)
    /\ Disjoint(arc.b1, arc.b2)

\* a 2Q cache with a key in each of its three lists
C25_Witness ==
    /\ policy = "twoq"
    /\ twoq.a1in /= <<>>
    /\ twoq.am /= <<>>
    /\ twoq.a1out /= <<>>
    /\ Cardinality(KeySet(twoq.a1in) \cup KeySet(twoq.am) \cup KeySet(twoq.a1out)) = 3

\* a get or put on the ARC cache
ARCStep == policy = "arc" /\ (GetStep \/ PutStep)

\* C26 -- ARC target p.  p is in [0, capacity_bytes] in every state.  p changes
\* only on a get miss whose key is in a ghost list: by +max(1, ghost size),
\* capped at capacity_bytes, for a key of B1 and by -max(1, ghost size),
\* floored at 0, for a key of B2.  Get hits, pure misses and put leave p
\* unchanged.
C26_ARCTarget ==
    /\ [](arc.p >= 0 /\ arc.p <= arc.capacity_bytes)
    /\ [][ARCStep =>
            LET key == last'.key
                resident == HasKey(arc.t1, key) \/ HasKey(arc.t2, key)
            IN  IF last'.op = "get" /\ ~resident /\ HasKey(arc.b1, key)
                THEN /\ ~last'.hit
                     /\ arc'.p = Min2(arc.capacity_bytes, arc.p + Max2(1, SizeOf(arc.b1, key)))
                ELSE IF last'.op = "get" /\ ~resident /\ HasKey(arc.b2, key)
                THEN /\ ~last'.hit
                     /\ arc'.p = Max2(0, arc.p - Max2(1, SizeOf(arc.b2, key)))
                ELSE arc'.p = arc.p]_vars

\* a get miss on a key of B2 has just lowered p to its floor, after an earlier
\* ghost hit or the initial value had it above 0
C26_Witness ==
    /\ policy = "arc"
    /\ last.op = "get"
    /\ ~last.hit
    /\ arc.p = 0
    /\ HasKey(arc.t2, last.key)

\* a get on the ARC cache that misses on a key recorded in B2 and whose
\* _replace must evict with T1 non-empty and T1_bytes equal to the adapted p
ARCTieBreakStep ==
    LET key == last'.key
        p2 == Max2(0, arc.p - Max2(1, SizeOf(arc.b2, key)))
    IN  /\ policy = "arc"
        /\ GetStep
        /\ ~HasKey(arc.t1, key) /\ ~HasKey(arc.t2, key) /\ ~HasKey(arc.b1, key)
        /\ HasKey(arc.b2, key)
        /\ arc.t1_bytes + arc.t2_bytes >= arc.capacity_bytes
        /\ arc.t1 /= <<>>
        /\ arc.t1_bytes = p2

\* C27 -- ARC replace on a B2 ghost hit.  When a get misses on a key that was
\* in B2 and _replace must evict, with T1 non-empty and T1_bytes equal to p
\* after the adaptation, the oldest entry of T1 is evicted into B1: the key
\* counts as a member of B2 for the tie-break.
C27_ARCTieBreak ==
    [][ARCTieBreakStep =>
         /\ ~HasKey(arc'.t1, Head(arc.t1).k)
         /\ HasKey(arc'.b1, Head(arc.t1).k)]_vars

LastOf(od) == od[Len(od)]

\* the keys a call evicted from a resident list: resident there before the
\* call, not the key of the call, and resident nowhere after it
EvictedFrom(od) ==
    {k \in KeySet(od) : k /= last'.key /\ ~HasKey(arc'.t1, k) /\ ~HasKey(arc'.t2, k)}

\* the four cases of get (arc.py:21-51) on the lists before and after the call
ARCGetTransitions ==
    (GetStep /\ last'.size <= arc.capacity_bytes) =>
        LET key == last'.key IN
        IF HasKey(arc.t1, key)
        THEN /\ last'.hit
             /\ ~HasKey(arc'.t1, key)
             /\ LastOf(arc'.t2) = [k |-> key, s |-> SizeOf(arc.t1, key)]
        ELSE IF HasKey(arc.t2, key)
        THEN /\ last'.hit
             /\ LastOf(arc'.t2) = [k |-> key, s |-> SizeOf(arc.t2, key)]
        ELSE IF HasKey(arc.b1, key) \/ HasKey(arc.b2, key)
        THEN /\ ~last'.hit
             /\ ~HasKey(arc'.b1, key) /\ ~HasKey(arc'.b2, key)
             /\ HasKey(arc'.t2, key) /\ ~HasKey(arc'.t1, key)
        ELSE /\ ~last'.hit
             /\ HasKey(arc'.t1, key) /\ ~HasKey(arc'.t2, key)

\* C28 -- ARC list transitions, for sizes <= capacity_bytes.  A get hit on a
\* T1 key moves it to the MRU end of T2 with unchanged size; a get hit on a T2
\* key moves it to the MRU end of T2; a get miss on a key of B1 or B2 removes
\* it from the ghost and leaves it resident in T2; a pure miss leaves the key
\* resident in T1; an entry evicted from T1 is in B1 and an entry evicted from
\* T2 is in B2, with its size, when the call returns.
C28_ARCTransitions ==
    [][ARCStep =>
         /\ ARCGetTransitions
         /\ last'.size <= arc.capacity_bytes =>
               /\ \A k \in EvictedFrom(arc.t1) :
                     HasKey(arc'.b1, k) /\ SizeOf(arc'.b1, k) = SizeOf(arc.t1, k)
               /\ \A k \in EvictedFrom(arc.t2) :
                     HasKey(arc'.b2, k) /\ SizeOf(arc'.b2, k) = SizeOf(arc.t2, k)]_vars

\* a get or put on the LRU-K cache
LRUKStep == policy = "lruk" /\ (GetStep \/ PutStep)

\* the score the eviction rule gives a history h: the k-th most recent
\* timestamp when h has k entries, else the last one, else -1
KthRecent(h, k) ==
    IF Len(h) >= k THEN h[Len(h) - k + 1]
    ELSE IF h /= <<>> THEN h[Len(h)] ELSE -1

\* the last n entries of h
LastN(h, n) == IF Len(h) > n THEN SubSeq(h, Len(h) - n + 1, Len(h)) ELSE h

\* C29 -- LRU-K eviction.  The logical clock increases by exactly 1 on every
\* get and every put; each key keeps at most its k most recent access
\* timestamps, and the history of a key is untouched by its eviction; every
\* key a call evicts has a score no larger than that of every other resident
\* key the call leaves in place; the key being admitted is never its own
\* victim: with a size <= capacity_bytes it is resident when the call returns.
C29_LRUKEviction ==
    [][LRUKStep =>
         LET key == last'.key
             k == lruk.k
             evicted == {x \in KeySet(lruk.items) \ {key} : ~HasKey(lruk'.items, x)}
             kept == {x \in KeySet(lruk.items) \ {key} : HasKey(lruk'.items, x)}
         IN  /\ lruk'.clock = lruk.clock + 1
             /\ lruk'.history[key] = LastN(Append(lruk.history[key], lruk.clock + 1), k)
             /\ \A x \in KeyChoices :
                   /\ Len(lruk'.history[x]) <= k
                   /\ x /= key => lruk'.history[x] = lruk.history[x]
             /\ \A x \in evicted : \A y \in kept :
                   KthRecent(lruk.history[x], k) <= KthRecent(lruk.history[y], k)
             /\ KeySet(lruk'.items) \subseteq KeySet(lruk.items) \cup {key}
             /\ last'.size <= lruk.capacity_bytes => HasKey(lruk'.items, key)]_vars

\* with k = 2, a miss has just evicted key 1, which was accessed twice and
\* more recently than the key left in place, and key 1 keeps its history
C29_Witness ==
    /\ policy = "lruk"
    /\ lruk.k = 2
    /\ last.op = "get" /\ ~last.hit /\ last.key = 3
    /\ KeySet(lruk.items) = {2, 3}
    /\ lruk.history[1] = <<1, 3>>
    /\ lruk.history[2] = <<2>>

\* C30 -- LRU-K with k = 1 is LRU.  Given the same calls, an LRU-K cache with
\* k = 1 and an LRU cache of the same capacity have counted the same hits and
\* the same misses and hold the same keys with the same sizes after every
\* call, and the LRU recency order is the order of the keys' last access
\* timestamps, so that the LRU-K victim is the least recently accessed key.
C30_LRUKOneIsLRU ==
    /\ lruk.hits = lru.hits
    /\ lruk.misses = lru.misses
    /\ KeySet(lruk.items) = KeySet(lru.items)
    /\ \A key \in KeySet(lru.items) : SizeOf(lruk.items, key) = SizeOf(lru.items, key)
    /\ lruk.used_bytes = lru.used_bytes
    /\ \A i \in 1..Len(lru.items) : \A j \in (i + 1)..Len(lru.items) :
          LastOf(lruk.history[lru.items[i].k]) < LastOf(lruk.history[lru.items[j].k])

\* after miss, miss, hit on the older key, miss: both caches evicted key 2,
\* the least recently accessed, and not key 1, the first inserted
C30_Witness ==
    /\ lruk.k = 1
    /\ gets = 4
    /\ lru.hits = 1
    /\ last.op = "get" /\ ~last.hit /\ last.key = 3
    /\ KeySet(lru.items) = {1, 3}
    /\ KeySet(lruk.items) = {1, 3}

\* the number of slots of the ring q that hold key
RECURSIVE SlotsOf(_, _)
SlotsOf(q, key) ==
    IF q = <<>> THEN 0
    ELSE (IF Head(q) = key THEN 1 ELSE 0) + SlotsOf(Tail(q), key)

\* the ring from the hand onwards with one slot per resident key, the slot
\* of its latest insertion; slots of keys that are not resident are skipped
RECURSIVE LiveRing(_, _)
LiveRing(q, items) ==
    IF q = <<>> THEN <<>>
    ELSE IF HasKey(items, Head(q)) /\ SlotsOf(Tail(q), Head(q)) = 0
         THEN <<Head(q)>> \o LiveRing(Tail(q), items)
         ELSE LiveRing(Tail(q), items)

\* the key second chance evicts: the first key of the ring with bit 0, and
\* the first key of the ring when the sweep had to clear every bit
SecondChanceVictim(c) ==
    LET ring == LiveRing(c.queue, c.items) IN
    IF \E i \in 1..Len(ring) : c.ref_bits[ring[i]] = 0
    THEN ring[CHOOSE i \in 1..Len(ring) :
                 /\ c.ref_bits[ring[i]] = 0
                 /\ \A j \in 1..(i - 1) : c.ref_bits[ring[j]] = 1]
    ELSE Head(ring)

\* the states of the cache in which the while loop of _insert calls
\* _evict_one, in order
RECURSIVE ClockCache_evict_calls(_, _)
ClockCache_evict_calls(c, size_bytes) ==
    IF c.used_bytes + size_bytes > c.capacity_bytes /\ c.items /= <<>>
    THEN LET d == ClockCache_evict_one(c) IN
         <<c>> \o (IF d = c THEN <<>> ELSE ClockCache_evict_calls(d, size_bytes))
    ELSE <<>>

\* the cache as _insert finds it: put has removed the key when it was resident
ClockCache_before_insert(c, key) ==
    IF HasKey(c.items, key)
    THEN [c EXCEPT !.used_bytes = @ - SizeOf(c.items, key), !.items = Pop(@, key),
                   !.ref_bits[key] = 0]
    ELSE c

\* a call on the CLOCK cache that runs the eviction loop of _insert
ClockInsertStep ==
    /\ policy = "clock"
    /\ (GetStep /\ ~HasKey(clock.items, last'.key)) \/ PutStep
    /\ last'.size <= clock.capacity_bytes

\* C31 -- CLOCK second chance.  Each eviction removes the first resident
\* entry in ring order, from the hand, whose reference bit is 0 once the bits
\* of the entries the hand passes are cleared: an entry with bit 1 is not
\* evicted while another resident entry with bit 0 lies ahead of it, and
\* when every bit is 1 the entry at the hand goes after a full revolution.
C31_ClockSecondChance ==
    [][ClockInsertStep =>
         LET calls == ClockCache_evict_calls(ClockCache_before_insert(clock, last'.key),
                                             last'.size)
         IN  \A i \in 1..Len(calls) :
                KeySet(ClockCache_evict_one(calls[i]).items)
                   = KeySet(calls[i].items) \ {SecondChanceVictim(calls[i])}]_vars

\* C32 -- CLOCK ring consistency.  In every reachable state each resident key
\* has exactly one slot in the ring: the slot a put leaves behind stays a
\* tombstone, so no key has two slots that the sweep treats as live.
C32_ClockOneLiveSlot ==
    \A key \in KeySet(clock.items) : SlotsOf(clock.queue, key) = 1

\* a get or put on the CLOCK-Pro cache
ClockProStep == policy = "clockpro" /\ (GetStep \/ PutStep)

\* C33 -- CLOCK-Pro hot target.  hot_target is in [0, capacity_bytes] in every
\* state and is capacity_bytes / 2 before the first call.  It increases, by
\* the requested size capped at capacity_bytes, only on a get miss whose key
\* is in the ghost list; it decreases, by the requested size floored at 0,
\* only on a get miss whose key is not in the ghost list; get hits and put
\* leave it unchanged.
C33_ClockProHotTarget ==
    /\ [](/\ clockpro.hot_target >= 0
          /\ clockpro.hot_target <= clockpro.capacity_bytes
          /\ (gets + puts = 0) => clockpro.hot_target = clockpro.capacity_bytes \div 2)
    /\ [][ClockProStep =>
            LET key == last'.key
                miss == last'.op = "get" /\ ~HasKey(clockpro.entries, key)
            IN  IF miss /\ key \in clockpro.ghost_set
                THEN /\ ~last'.hit
                     /\ clockpro'.hot_target
                           = Min2(clockpro.capacity_bytes, clockpro.hot_target + last'.size)
                ELSE IF miss
                THEN /\ ~last'.hit
                     /\ clockpro'.hot_target = Max2(0, clockpro.hot_target - last'.size)
                ELSE clockpro'.hot_target = clockpro.hot_target]_vars

\* a get miss on a ghost key has just raised hot_target from 0 to the cap
C33_Witness ==
    /\ policy = "clockpro"
    /\ last.op = "get" /\ ~last.hit
    /\ HasKey(clockpro.entries, last.key)
    /\ clockpro.hot_target = clockpro.capacity_bytes
    /\ last.size > 0

\* C34 -- CLOCK-Pro ghost bound.  After every get and put has returned, the
\* ghost FIFO holds at most 2 * (number of resident entries) keys.
C34_ClockProGhostBound ==
    Returned => Len(clockpro.ghost) <= 2 * Len(clockpro.entries)

\* C35 -- CLOCK-Pro ghost consistency.  In every reachable state the ghost
\* FIFO and the ghost membership set hold the same keys, each key at most
\* once in the FIFO, and no ghost key is a resident entry.
C35_ClockProGhostConsistent ==
    /\ {clockpro.ghost[i] : i \in 1..Len(clockpro.ghost)} = clockpro.ghost_set
    /\ \A key \in clockpro.ghost_set : SlotsOf(clockpro.ghost, key) = 1
    /\ \A key \in clockpro.ghost_set : ~HasKey(clockpro.entries, key)

\* the bytes of the resident entries flagged hot
RECURSIVE HotSum(_)
HotSum(entries) ==
    IF entries = <<>> THEN 0
    ELSE (IF Head(entries).hot THEN Head(entries).s ELSE 0) + HotSum(Tail(entries))

\* the states of the cache in which the while loop of _insert calls
\* _evict_one, in order
RECURSIVE ClockProCache_evict_calls(_, _)
ClockProCache_evict_calls(c, size_bytes) ==
    IF c.used_bytes + size_bytes > c.capacity_bytes /\ c.entries /= <<>>
    THEN LET d == ClockProCache_evict_one(c) IN
         <<c>> \o (IF d = c THEN <<>> ELSE ClockProCache_evict_calls(d, size_bytes))
    ELSE <<>>

\* the cache as _insert finds it: get has adjusted hot_target and the ghost
\* list, put has removed the key when it was resident
ClockProCache_before_insert(c, op, key, size_bytes) ==
    IF op = "get"
    THEN IF key \in c.ghost_set
         THEN [c EXCEPT !.ghost_set = @ \ {key}, !.ghost = RemoveFirst(@, key),
                        !.hot_target = Min2(c.capacity_bytes, @ + size_bytes)]
         ELSE [c EXCEPT !.hot_target = Max2(0, @ - size_bytes)]
    ELSE IF HasKey(c.entries, key)
    THEN [c EXCEPT !.entries = Pop(@, key),
                   !.used_bytes = @ - Entry(c.entries, key).s,
                   !.hot_bytes = IF Entry(c.entries, key).hot THEN @ - Entry(c.entries, key).s
                                 ELSE @,
                   !.order = RemoveFirst(@, key)]
    ELSE c

\* a call on the CLOCK-Pro cache that runs the eviction loop of _insert
ClockProInsertStep ==
    /\ policy = "clockpro"
    /\ (GetStep /\ ~HasKey(clockpro.entries, last'.key)) \/ PutStep
    /\ last'.size <= clockpro.capacity_bytes

\* C36 -- CLOCK-Pro hot accounting.  In every reachable state hot_bytes is
\* the sum of the sizes of the resident entries flagged hot, so
\* 0 <= hot_bytes <= used_bytes.  Only a cold entry with reference bit 0 is
\* evicted: an eviction removes one entry, and when that entry had its bit set
\* or was hot as the eviction began, the hand has first cleared or demoted it
\* and gone round the ring, so every entry left has reference bit 0.
C36_ClockProHotAccounting ==
    /\ [](/\ clockpro.hot_bytes = HotSum(clockpro.entries)
          /\ clockpro.used_bytes = SumSizes(clockpro.entries)
          /\ 0 <= clockpro.hot_bytes
          /\ clockpro.hot_bytes <= clockpro.used_bytes)
    /\ [][ClockProInsertStep =>
            \A calls \in {ClockProCache_evict_calls(
                             ClockProCache_before_insert(clockpro, last'.op, last'.key,
                                                         last'.size),
                             last'.size)} :
               \A i \in 1..Len(calls) :
                  \A d \in {ClockProCache_evict_one(calls[i])} :
                     \A gone \in {KeySet(calls[i].entries) \ KeySet(d.entries)} :
                        /\ Cardinality(gone) = 1
                        /\ d.hot_bytes = HotSum(d.entries)
                        /\ \A k \in gone :
                              (Entry(calls[i].entries, k).ref = 1 \/ Entry(calls[i].entries, k).hot)
                                 => \A j \in 1..Len(d.entries) : d.entries[j].ref = 0]_vars

\* a hit has made an entry hot while another entry is cold and an earlier
\* eviction has left a key in the ghost list
C36_Witness ==
    /\ policy = "clockpro"
    /\ clockpro.hot_bytes > 0
    /\ clockpro.hot_bytes < clockpro.used_bytes
    /\ clockpro.ghost /= <<>>

\* ------------------------------------------------- Priority-LRU evictions
\* the states of the cache in which the while loop of _evict_if_needed gets a
\* victim from _select_victim, in order
RECURSIVE PriorityLRUCache_evict_calls(_, _)
PriorityLRUCache_evict_calls(c, incoming_size) ==
    IF c.used_bytes + incoming_size > c.capacity_bytes
       /\ PriorityLRUCache_select_victim(c) /= <<>>
    THEN LET victim == PriorityLRUCache_select_victim(c)
             d == [c EXCEPT !.buckets[victim[2]] = Pop(@, victim[1]),
                            !.priorities[victim[1]] = None,
                            !.pinned = @ \ {victim[1]},
                            !.used_bytes = @ - SizeOf(c.buckets[victim[2]], victim[1])]
         IN <<c>> \o PriorityLRUCache_evict_calls(d, incoming_size)
    ELSE <<>>

\* the cache as _evict_if_needed finds it: put has popped the key from its
\* bucket, _insert has added a pinned key to the pinned set
PriorityLRUCache_before_evict(c, op, key, md) ==
    LET priority == c.priorities[key]
        popped == IF op = "put" /\ priority /= None /\ HasKey(c.buckets[priority], key)
                  THEN [c EXCEPT !.buckets[priority] = Pop(@, key),
                                 !.used_bytes = @ - SizeOf(c.buckets[priority], key)]
                  ELSE c
    IN [popped EXCEPT !.pinned = IF md.pinned THEN @ \cup {key} ELSE @]

\* the keys held by the buckets, the bucket of a resident key and its place
ResidentKeys(c) == UNION {KeySet(c.buckets[q]) : q \in PriorityChoices}
BucketOf(c, key) == CHOOSE q \in PriorityChoices : HasKey(c.buckets[q], key)
PlaceOf(c, key) ==
    CHOOSE i \in 1..Len(c.buckets[BucketOf(c, key)]) : c.buckets[BucketOf(c, key)][i].k = key

\* a goes before b: lower priority, or same priority and less recently used
GoesBefore(c, a, b) ==
    \/ BucketOf(c, a) < BucketOf(c, b)
    \/ BucketOf(c, a) = BucketOf(c, b) /\ PlaceOf(c, a) < PlaceOf(c, b)

\* the victim the rule names: among the non-pinned resident keys, or among all
\* resident keys when every one is pinned, the key that goes before the others
RuleVictim(c) ==
    LET free == ResidentKeys(c) \ c.pinned
        cand == IF free /= {} THEN free ELSE ResidentKeys(c)
    IN CHOOSE k \in cand : \A j \in cand \ {k} : GoesBefore(c, k, j)

\* the step is the call op(key, size_bytes, md) on the Priority-LRU cache
PriorityLRUCall(op, key, size_bytes, md) ==
    /\ policy = "priority_lru"
    /\ last'.op = op /\ last'.key = key /\ last'.size = size_bytes
    /\ \/ op = "get" /\ GetStep /\ prio' = PriorityLRUCache_get(prio, key, size_bytes, md).c
       \/ op = "put" /\ PutStep /\ prio' = PriorityLRUCache_put(prio, key, size_bytes, md)

\* what the rule asks of the call op(key, size_bytes, md) that took prio to
\* prio': victims, buckets, admission and pin status
PriorityLRURule(op, key, size_bytes, md) ==
    LET isHit == op = "get" /\ prio.priorities[key] /= None
        admits == ~isHit /\ size_bytes <= prio.capacity_bytes
    IN /\ admits =>
            \A b \in {PriorityLRUCache_before_evict(prio, op, key, md)} :
            \A calls \in {PriorityLRUCache_evict_calls(b, size_bytes)} :
               /\ \A i \in 1..Len(calls) :
                     PriorityLRUCache_select_victim(calls[i])[1] = RuleVictim(calls[i])
               /\ ResidentKeys(prio')
                     = (ResidentKeys(b)
                          \ {PriorityLRUCache_select_victim(calls[i])[1] : i \in 1..Len(calls)})
                       \cup {key}
               /\ HasKey(prio'.buckets[md.priority], key)
               /\ (key \in prio'.pinned) = md.pinned
       /\ isHit =>
            /\ prio'.priorities = prio.priorities
            /\ \A q \in PriorityChoices : KeySet(prio'.buckets[q]) = KeySet(prio.buckets[q])

\* C37 -- Priority-LRU victim selection.  A key is pinned when the metadata of
\* its admission has pinned = true.  Each eviction removes the least recently
\* used non-pinned key of the lowest-priority bucket that holds a non-pinned
\* key; a pinned key goes only when every resident key is pinned, and then it is
\* the least recently used key of the lowest-priority bucket; a get hit leaves
\* every key in its bucket; a key of size <= capacity is always admitted, to the
\* bucket of the priority given with the call.
C37_PriorityVictim ==
    [][\A op \in {"get", "put"}, key \in KeyChoices, size_bytes \in SizeChoices,
          priority \in PriorityChoices, pinned \in BOOLEAN :
          \A md \in {[NoMd EXCEPT !.priority = priority, !.pinned = pinned]} :
             PriorityLRUCall(op, key, size_bytes, md)
                => PriorityLRURule(op, key, size_bytes, md)]_vars

\* ------------------------------------------------------ tenant partitions
\* a get or put on the partitioned cache
PartitionedStep == policy = "tenant_lru" /\ (GetStep \/ PutStep)

RECURSIVE SumHits(_)
SumHits(cs) == IF cs = <<>> THEN 0 ELSE Head(cs).hits + SumHits(Tail(cs))

RECURSIVE SumMisses(_)
SumMisses(cs) == IF cs = <<>> THEN 0 ELSE Head(cs).misses + SumMisses(Tail(cs))

\* the partition of a tenant: hash(t) mod partitions, 0 for the null tenant
PartitionOfTenant(t) == IF t = None THEN 0 ELSE t % part.partitions

\* C38 -- tenant isolation.  A get or put made for tenant t reads and changes
\* only partition hash(t) mod partitions (partition 0 for the null tenant):
\* that partition takes the call as an LRU cache of its own, the get hits
\* exactly when the key is resident there, the resident keys and used bytes of
\* every other partition stay as they were, and the aggregate hits and misses
\* are the sums of the partitions' counters.
C38_TenantIsolation ==
    [][PartitionedStep =>
         \A idx \in {PartitionOfTenant(last'.tenant_id)} :
            /\ \A i \in 1..part.partitions :
                  i /= idx + 1 => part'.caches[i] = part.caches[i]
            /\ part'.caches[idx + 1]
                  = IF GetStep
                    THEN LRUCache_get(part.caches[idx + 1], last'.key, last'.size).c
                    ELSE LRUCache_put(part.caches[idx + 1], last'.key, last'.size)
            /\ GetStep => (last'.hit = HasKey(part.caches[idx + 1].items, last'.key))
            /\ part'.hits = SumHits(part'.caches)
            /\ part'.misses = SumMisses(part'.caches)]_vars

\* two tenants hold the same key in different partitions and the last call
\* was a hit for the tenant of partition 1
C38_Witness ==
    /\ policy = "tenant_lru"
    /\ last.op = "get" /\ last.hit /\ last.tenant_id = 1
    /\ \E key \in KeyChoices :
          HasKey(part.caches[1].items, key) /\ HasKey(part.caches[2].items, key)

\* ------------------------------------------------------ collector ledger
\* a request was handled and recorded by the collector
RecordStep == ledger'.n = ledger.n + 1 /\ ledger'.status = "recorded"

\* C39 -- collector ledger.  After any sequence of handled requests, with
\* block hashes or without: total_requests = request_full_prefix_hits +
\* request_full_prefix_misses; prefix_block_hits <= prefix_block_total;
\* bytes_read + bytes_written = bytes_requested; bytes_cached <= bytes_read;
\* bytes_cached grows only when the request is a hit, by the kv_bytes of that
\* request; and no counter ever decreases.
C39_CollectorLedger ==
    /\ [](\A m \in {ledger.metrics} :
            /\ m.total_requests = m.request_full_prefix_hits + m.request_full_prefix_misses
            /\ m.prefix_block_hits <= m.prefix_block_total
            /\ m.bytes_read + m.bytes_written = m.bytes_requested
            /\ m.bytes_cached <= m.bytes_read)
    /\ [][/\ \A f \in DOMAIN ledger.metrics : ledger'.metrics[f] >= ledger.metrics[f]
          /\ RecordStep =>
                ledger'.metrics.bytes_cached
                   = ledger.metrics.bytes_cached
                     + (IF ledger'.hit THEN ledger'.kv_bytes_total ELSE 0)
          /\ ~RecordStep => ledger'.metrics = ledger.metrics]_vars

\* two requests were recorded: one with two block hashes, all misses, then one
\* without block hashes that hit a key the first had written
C39_Witness ==
    /\ ledger.status = "recorded"
    /\ ledger.req.block_hashes = <<>> /\ ledger.hit
    /\ ledger.metrics.total_requests = 2
    /\ ledger.metrics.request_full_prefix_hits = 1
    /\ ledger.metrics.request_full_prefix_misses = 1
    /\ ledger.metrics.prefix_block_hits = 0
    /\ ledger.metrics.prefix_block_total = 2
    /\ ledger.metrics.bytes_cached > 0
    /\ ledger.metrics.bytes_written > 0

\* ------------------------------------------------------------- hit frame
\* the ghost lists of the policy: keys remembered without being resident
GhostLists ==
    CASE policy = "twoq" -> <<twoq.a1out>>
      [] policy = "arc" -> <<arc.b1, arc.b2>>
      [] policy = "clockpro" -> <<clockpro.ghost>>
      [] OTHER -> <<>>

\* the resident entries as a set of (key, size) pairs
EntrySet(od) == {[k |-> od[i].k, s |-> od[i].s] : i \in 1..Len(od)}

\* a get on a single-tier policy that returned hit = true
SingleTierHitStep ==
    /\ policy /= "hierarchical_lru"
    /\ GetStep /\ pc' = "idle" /\ last'.hit

\* C40 -- a hit evicts nothing.  For every single-tier policy a get that
\* returns hit = true leaves the set of resident keys, the size of every
\* resident entry, used_bytes and the ghost lists as they were before the call.
C40_HitEvictsNothing ==
    [][SingleTierHitStep =>
         /\ EntrySet(ResidentEntries') = EntrySet(ResidentEntries)
         /\ Len(ResidentEntries') = Len(ResidentEntries)
         /\ Stats'.used_bytes = Stats.used_bytes
         /\ GhostLists' = GhostLists]_vars

\* a hit with a size other than the entry's, on a cache that holds another
\* key and remembers at least one ghost
C40_Witness ==
    /\ policy \in {"twoq", "arc", "clockpro"}
    /\ last.op = "get" /\ last.hit
    /\ HasKey(ResidentEntries, last.key)
    /\ SizeOf(ResidentEntries, last.key) /= last.size
    /\ Len(ResidentEntries) >= 2
    /\ \E i \in 1..Len(GhostLists) : GhostLists[i] /= <<>>

====
